---- MODULE Spec2Model ----
(***************************************************************************)
(* A model of the Z compiler (Compiler/compiler.h and                      *)
(* Compiler/compiler.cpp): compile and compile_, tokenize and parseNumber, *)
(* leaf promotion and condenseAST (bracket grouping, the two precedence    *)
(* passes with the arithmetic binop pattern table), the register manager   *)
(* and the bytecode emitter.                                               *)
(*                                                                         *)
(* A std::list<Node*> is a sequence of node records; a list iterator is an *)
(* index into it (Len + 1 is end()).  Erasing an element invalidates the   *)
(* iterators that designate it: the model tracks this for the one iterator *)
(* the code keeps across an erase, condenseAST's start parameter.          *)
(*                                                                         *)
(* A std::string made with new is a buffer of the heap, named after the    *)
(* place in the token list of the token it was made for; new, delete and   *)
(* the destructors of TokenList and of the nodes change its state.         *)
(***************************************************************************)
EXTENDS Integers, Sequences, FiniteSets, TLC

VARIABLES
    tokenList,     \* compile_'s TokenList: the tokens, in source order
    nodeList,      \* constructAST's working NodeList (condenseAST's inputList)
    outputList,    \* constructAST's outputList: the resulting AST
    result,        \* how the call ended: returned, threw (kind, line, column), crashed
    pc,            \* position in constructAST: "construct", "condense", "done"
    wordsActive,   \* RegManager::wordsActive (in compile: of makeBytecode's reg)
    bytesActive,   \* RegManager::bytesActive
    lastCall,      \* the RegManager call made last, with the pools as they were before it
    src,           \* the characters of the input file
    lex,           \* the locals of tokenize: c, line, column, the flags, str, strlen
    output,        \* what was written to outputFile, one entry for each write
    byteCounter,   \* makeBytecode's byteCounter
    rid1,          \* makeBytecode's rid1: the register makeExprBytecode returned
    status,        \* what compile returned (-1 while it runs)
    reported,      \* the error compile printed
    rc,            \* what parseNumber returned (-1 before the call)
    heap           \* the std::string buffers made by new: heap[n] is the state of
                   \* the buffer allocated for token n ("none" when there is none)

vars == <<tokenList, nodeList, outputList, result, pc, wordsActive, bytesActive,
          lastCall, src, lex, output, byteCounter, rid1, status, reported, rc,
          heap>>

astVars == <<tokenList, nodeList, outputList, result, pc>>

regVars == <<wordsActive, bytesActive, lastCall>>

lexVars == <<src, lex, heap>>

emitVars == <<output, byteCounter, rid1, status, reported>>

(***************************************************************************)
(* Bounds of the model.                                                    *)
(***************************************************************************)
\* operators in a bracket-free chain  leaf (op leaf)^k
MaxOps == 3

\* tokens in a bracket sequence
MaxGroupLen == 4

\* register_::NUM_WORD_REGISTERS and register_::NUM_BYTE_REGISTERS: the pool
\* sizes; the header that sets them is not part of the tree, the model takes
\* small pools.
NUM_WORD_REGISTERS == 3

NUM_BYTE_REGISTERS == 2

\* register_::W0 and register_::B0: the ids of the first word and byte register.
W0 == 0

B0 == 16

(***************************************************************************)
(* Tokens (compiler.h, NoDestructToken).                                   *)
(***************************************************************************)
\* the union of a token: its string (when hasStr), its int_ or its float_;
\* a float is kept as the whole part and the digits after the point.  The
\* member str is a pointer: ptr is the buffer it points to (0 for nullptr,
\* n for the buffer allocated for token n) and str the text found there
NoFloat == [whole |-> 0, frac |-> <<>>]

\* a token whose text and value play no part
Token(typeIn, lineIn, columnIn, hasStrIn) ==
    [type |-> typeIn, hasStr |-> hasStrIn, line |-> lineIn, column |-> columnIn,
     str |-> <<>>, ptr |-> 0, int_ |-> 0, float_ |-> NoFloat]

\* NoDestructToken(typeIn, lineIn, columnIn)
Token3(typeIn, lineIn, columnIn) == Token(typeIn, lineIn, columnIn, FALSE)

\* NoDestructToken(typeIn, lineIn, columnIn, strIn)
Token4(typeIn, lineIn, columnIn, strIn) ==
    [type |-> typeIn, hasStr |-> TRUE, line |-> lineIn, column |-> columnIn,
     str |-> strIn, ptr |-> 0, int_ |-> 0, float_ |-> NoFloat]

\* tokenList.emplace_back(...): a token made with `new std::string` points to
\* the new buffer, which is named after the token's place in the list
EmplaceBack(toks, tok) ==
    Append(toks, IF tok.hasStr THEN [tok EXCEPT !.ptr = Len(toks) + 1] ELSE tok)

\* the states of a buffer: "live" from new to delete, "freed" after one
\* delete, "twice" after a delete of a buffer that is not live
Deleted(state) == IF state = "live" THEN "freed" ELSE "twice"

\* delete on each pointer of ptrs in turn; delete nullptr does nothing
RECURSIVE DeleteAll(_, _)
DeleteAll(h, ptrs) ==
    IF ptrs = <<>> THEN h
    ELSE DeleteAll(IF Head(ptrs) = 0 THEN h
                   ELSE [h EXCEPT ![Head(ptrs)] = Deleted(@)],
                   Tail(ptrs))

(***************************************************************************)
(* AST nodes (compiler.h, namespace AST).                                  *)
(***************************************************************************)
ExprTypes == {"UNKNOWN", "INT", "FLOAT", "BOOL", "CHAR"}

NodeParenGroup(nodeListIn) ==
    [type |-> "PAREN_GROUP", isExpr |-> FALSE, line |-> -1, column |-> -1,
     nodeList |-> nodeListIn]

NodeSquareGroup(nodeListIn) ==
    [type |-> "SQUARE_GROUP", isExpr |-> FALSE, line |-> -1, column |-> -1,
     nodeList |-> nodeListIn]

NodeCurlyGroup(nodeListIn) ==
    [type |-> "CURLY_GROUP", isExpr |-> FALSE, line |-> -1, column |-> -1,
     nodeList |-> nodeListIn]

\* the wrapper holds an iterator to its token: the token's type, number and
\* string pointer as they are read through it
NodeToken(tokenIn) ==
    [type |-> "TOKEN", isExpr |-> FALSE, line |-> tokenIn.line,
     column |-> tokenIn.column, token |-> tokenIn.type, int_ |-> tokenIn.int_,
     ptr |-> tokenIn.ptr]

ExprInt(tokenNode) ==
    [type |-> "INT", isExpr |-> TRUE, evalType |-> "INT",
     line |-> tokenNode.line, column |-> tokenNode.column,
     int_ |-> tokenNode.int_]

ExprFloat(tokenNode) ==
    [type |-> "FLOAT", isExpr |-> TRUE, evalType |-> "FLOAT",
     line |-> tokenNode.line, column |-> tokenNode.column]

ExprBool(tokenNode, boolIn) ==
    [type |-> "BOOL", isExpr |-> TRUE, evalType |-> "BOOL",
     line |-> tokenNode.line, column |-> tokenNode.column, bool_ |-> boolIn]

ExprChar(tokenNode) ==
    [type |-> "CHAR", isExpr |-> TRUE, evalType |-> "CHAR",
     line |-> tokenNode.line, column |-> tokenNode.column]

\* an identifier node that evaluates to an int
ExprIdentifierOfTypeInt(tokenNode) ==
    [type |-> "IDENTIFIER", isExpr |-> TRUE, evalType |-> "INT",
     line |-> tokenNode.line, column |-> tokenNode.column,
     str |-> tokenNode.ptr]

\* str(tokenNode->token->str): the node takes the token's string pointer
ExprIdentifier(tokenNode) ==
    [type |-> "IDENTIFIER", isExpr |-> TRUE, evalType |-> "UNKNOWN",
     line |-> tokenNode.line, column |-> tokenNode.column,
     str |-> tokenNode.ptr]

\* an identifier node built for a token that keeps its string and its flag
TokenKeepsString(token) == token

\* what ExprIdentifier's constructor leaves of the token: hasStr = false,
\* str = nullptr
TokenDrained(token) ==
    [token EXCEPT !.hasStr = FALSE, !.ptr = 0, !.str = <<>>]

\* the string pointers the destructors of the nodes of a list hand to
\* delete, in order: ~NodeList deletes every node, a group its nodeList, a
\* binop its left and right, a cast its source, an identifier its str
RECURSIVE Strings(_, _)
Strings(work, acc) ==
    IF work = <<>> THEN acc
    ELSE LET n == Head(work)
             children ==
                 CASE n.type = "BINOP" -> <<n.left, n.right>>
                   [] n.type = "CAST" -> <<n.source>>
                   [] n.type \in {"PAREN_GROUP", "SQUARE_GROUP", "CURLY_GROUP"} ->
                        n.nodeList
                   [] OTHER -> <<>>
         IN  Strings(children \o Tail(work),
                     IF n.type = "IDENTIFIER" THEN Append(acc, n.str) ELSE acc)

\* ~TokenList: delete ptr->str for every token with hasStr
TokenStrings(tokens) ==
    LET owning == SelectSeq([i \in 1..Len(tokens) |-> i],
                            LAMBDA i : tokens[i].hasStr)
    IN  [k \in 1..Len(owning) |-> tokens[owning[k]].ptr]

\* a cast node that keeps the evaluation type of its source
ExprCastOfSourceType(sourceIn, typeIn) ==
    [type |-> "CAST", isExpr |-> TRUE, evalType |-> sourceIn.evalType,
     line |-> sourceIn.line, column |-> sourceIn.column, source |-> sourceIn]

ExprCast(sourceIn, typeIn) ==
    [type |-> "CAST", isExpr |-> TRUE, evalType |-> typeIn,
     line |-> sourceIn.line, column |-> sourceIn.column, source |-> sourceIn]

ExprBinop(leftIn, rightIn, opTypeIn, typeIn, lineIn, columnIn) ==
    [type |-> "BINOP", isExpr |-> TRUE, evalType |-> typeIn,
     line |-> lineIn, column |-> columnIn,
     left |-> leftIn, right |-> rightIn, opType |-> opTypeIn]

(***************************************************************************)
(* The arithmetic binop patterns (compiler.h).                             *)
(***************************************************************************)
ArithmeticBinopPattern3(r, a, b) == [resultType |-> r, aType |-> a, bType |-> b]

ArithmeticBinopPattern2(a, b) == [resultType |-> a, aType |-> a, bType |-> b]

ArithmeticBinopPattern1(a) == [resultType |-> a, aType |-> a, bType |-> a]

\* the table with the entry {INT, CHAR} written {CHAR, INT}
arithmeticBinopPatternsCharInt ==
    << ArithmeticBinopPattern1("INT"),
       ArithmeticBinopPattern1("FLOAT"),
       ArithmeticBinopPattern1("CHAR"),
       ArithmeticBinopPattern2("FLOAT", "INT"),
       ArithmeticBinopPattern2("FLOAT", "CHAR"),
       ArithmeticBinopPattern2("FLOAT", "BOOL"),
       ArithmeticBinopPattern2("CHAR", "INT"),
       ArithmeticBinopPattern2("INT", "BOOL"),
       ArithmeticBinopPattern2("CHAR", "BOOL"),
       ArithmeticBinopPattern3("INT", "BOOL", "BOOL") >>

\* the table without its last entry, {INT, BOOL, BOOL}
arithmeticBinopPatternsNine ==
    << ArithmeticBinopPattern1("INT"),
       ArithmeticBinopPattern1("FLOAT"),
       ArithmeticBinopPattern1("CHAR"),
       ArithmeticBinopPattern2("FLOAT", "INT"),
       ArithmeticBinopPattern2("FLOAT", "CHAR"),
       ArithmeticBinopPattern2("FLOAT", "BOOL"),
       ArithmeticBinopPattern2("INT", "CHAR"),
       ArithmeticBinopPattern2("INT", "BOOL"),
       ArithmeticBinopPattern2("CHAR", "BOOL") >>

arithmeticBinopPatterns ==
    << ArithmeticBinopPattern1("INT"),
       ArithmeticBinopPattern1("FLOAT"),
       ArithmeticBinopPattern1("CHAR"),
       ArithmeticBinopPattern2("FLOAT", "INT"),
       ArithmeticBinopPattern2("FLOAT", "CHAR"),
       ArithmeticBinopPattern2("FLOAT", "BOOL"),
       ArithmeticBinopPattern2("INT", "CHAR"),
       ArithmeticBinopPattern2("INT", "BOOL"),
       ArithmeticBinopPattern2("CHAR", "BOOL"),
       ArithmeticBinopPattern3("INT", "BOOL", "BOOL") >>

(***************************************************************************)
(* How a call ends.                                                        *)
(***************************************************************************)
Throw(eTypeIn, lineIn, columnIn) ==
    [st |-> "throw", eType |-> eTypeIn, line |-> lineIn, column |-> columnIn]

(***************************************************************************)
(* condenseAST, pass 1: multiplication and division.                       *)
(***************************************************************************)
\* the pattern loop matching in the written operand order only
RECURSIVE MatchPatterns1OneWay(_, _, _)
MatchPatterns1OneWay(left, right, k) ==
    IF k > Len(arithmeticBinopPatterns)
    THEN [resultType |-> "UNKNOWN", left |-> left, right |-> right]
    ELSE LET pattern == arithmeticBinopPatterns[k] IN
         IF left.evalType = pattern.aType /\ right.evalType = pattern.bType
         THEN [resultType |-> pattern.resultType,
               left  |-> IF left.evalType # pattern.resultType
                         THEN ExprCast(left, pattern.resultType) ELSE left,
               right |-> IF right.evalType # pattern.resultType
                         THEN ExprCast(right, pattern.resultType) ELSE right]
         ELSE MatchPatterns1OneWay(left, right, k + 1)

\* the pattern loop of pass 1, from table entry k on
RECURSIVE MatchPatterns1(_, _, _)
MatchPatterns1(left, right, k) ==
    IF k > Len(arithmeticBinopPatterns)
    THEN [resultType |-> "UNKNOWN", left |-> left, right |-> right]
    ELSE LET pattern == arithmeticBinopPatterns[k] IN
         IF \/ (left.evalType = pattern.aType /\ right.evalType = pattern.bType)
            \/ (left.evalType = pattern.bType /\ right.evalType = pattern.aType)
         THEN [resultType |-> pattern.resultType,
               left  |-> IF left.evalType # pattern.resultType
                         THEN ExprCast(left, pattern.resultType) ELSE left,
               right |-> IF right.evalType # pattern.resultType
                         THEN ExprCast(right, pattern.resultType) ELSE right]
         ELSE MatchPatterns1(left, right, k + 1)

\* the case STAR / SLASH of pass 1 for the operator token at ptr: the list
\* with the three nodes replaced by the binop, or the exception
Fold1(list, ptr) ==
    LET flag == (list[ptr].token = "STAR")
        pptr == ptr + 1
    IN  IF \/ ptr = 1
           \/ pptr > Len(list)
           \/ ~list[pptr].isExpr
           \/ ~list[ptr - 1].isExpr
        THEN Throw("BINOP_MISSING_EXPRESSION", list[ptr].line, list[ptr].column)
        ELSE LET m == MatchPatterns1(list[ptr - 1], list[pptr], 1) IN
             IF m.resultType = "UNKNOWN"
             THEN Throw("BINOP_ILLEGAL_PATTERN", list[ptr].line, list[ptr].column)
             ELSE LET binop == ExprBinop(m.left, m.right,
                                         IF flag THEN "MULT" ELSE "DIV",
                                         m.resultType,
                                         list[ptr].line, list[ptr].column)
                  \* ptr = list.insert(std::prev(ptr), binop); the three erased
                  IN  [st |-> "ok",
                       list |-> SubSeq(list, 1, ptr - 2)
                                  \o <<binop>>
                                  \o SubSeq(list, pptr + 1, Len(list)),
                       ptr |-> ptr - 1]

\* the body of pass 1's for loop for the node at ptr: the list and ptr after it
Pass1Body(list, ptr) ==
    IF list[ptr].type = "TOKEN" /\ list[ptr].token \in {"STAR", "SLASH"}
    THEN Fold1(list, ptr)
    ELSE [st |-> "ok", list |-> list, ptr |-> ptr]

RECURSIVE Pass1Loop(_, _)
\* after the body: the exception leaves the loop, otherwise ptr++ and on
Pass1Step(body) ==
    IF body.st # "ok" THEN body ELSE Pass1Loop(body.list, body.ptr + 1)

\* pass 1's for loop, from position ptr on
Pass1Loop(list, ptr) ==
    IF ptr > Len(list) THEN [st |-> "ok", list |-> list]
    ELSE Pass1Step(Pass1Body(list, ptr))

Pass1(list) == Pass1Loop(list, 1)

(***************************************************************************)
(* condenseAST, pass 2: addition and subtraction.                          *)
(***************************************************************************)
RECURSIVE MatchPatterns2(_, _, _)
MatchPatterns2(left, right, k) ==
    IF k > Len(arithmeticBinopPatterns)
    THEN [resultType |-> "UNKNOWN", left |-> left, right |-> right]
    ELSE LET pattern == arithmeticBinopPatterns[k] IN
         IF \/ (left.evalType = pattern.aType /\ right.evalType = pattern.bType)
            \/ (left.evalType = pattern.bType /\ right.evalType = pattern.aType)
         THEN [resultType |-> pattern.resultType,
               left  |-> IF left.evalType # pattern.resultType
                         THEN ExprCast(left, pattern.resultType) ELSE left,
               right |-> IF right.evalType # pattern.resultType
                         THEN ExprCast(right, pattern.resultType) ELSE right]
         ELSE MatchPatterns2(left, right, k + 1)

\* the case PLUS / DASH without the check of the neighbours: an operator with
\* no expression beside it is reported as an illegal pattern
Fold2NoNeighbourCheck(list, ptr) ==
    LET flag == (list[ptr].token = "PLUS")
        pptr == ptr + 1
        complete == /\ ptr > 1
                    /\ pptr <= Len(list)
                    /\ list[pptr].isExpr
                    /\ list[ptr - 1].isExpr
        m == IF complete THEN MatchPatterns2(list[ptr - 1], list[pptr], 1)
             ELSE [resultType |-> "UNKNOWN"]
    IN  IF m.resultType = "UNKNOWN"
        THEN Throw("BINOP_ILLEGAL_PATTERN", list[ptr].line, list[ptr].column)
        ELSE [st |-> "ok",
              list |-> SubSeq(list, 1, ptr - 2)
                         \o <<ExprBinop(m.left, m.right,
                                        IF flag THEN "ADD" ELSE "SUB",
                                        m.resultType,
                                        list[ptr].line, list[ptr].column)>>
                         \o SubSeq(list, pptr + 1, Len(list)),
              ptr |-> ptr - 1]

\* the case PLUS / DASH of pass 2 for the operator token at ptr
Fold2(list, ptr) ==
    LET flag == (list[ptr].token = "PLUS")
        pptr == ptr + 1
    IN  IF \/ ptr = 1
           \/ pptr > Len(list)
           \/ ~list[pptr].isExpr
           \/ ~list[ptr - 1].isExpr
        THEN Throw("BINOP_MISSING_EXPRESSION", list[ptr].line, list[ptr].column)
        ELSE LET m == MatchPatterns2(list[ptr - 1], list[pptr], 1) IN
             IF m.resultType = "UNKNOWN"
             THEN Throw("BINOP_ILLEGAL_PATTERN", list[ptr].line, list[ptr].column)
             ELSE LET binop == ExprBinop(m.left, m.right,
                                         IF flag THEN "ADD" ELSE "SUB",
                                         m.resultType,
                                         list[ptr].line, list[ptr].column)
                  \* ptr = list.insert(std::prev(ptr), binop); the three erased
                  IN  [st |-> "ok",
                       list |-> SubSeq(list, 1, ptr - 2)
                                  \o <<binop>>
                                  \o SubSeq(list, pptr + 1, Len(list)),
                       ptr |-> ptr - 1]

\* the body of pass 2's for loop for the node at ptr: the list and ptr after it
Pass2Body(list, ptr) ==
    IF list[ptr].type = "TOKEN" /\ list[ptr].token \in {"PLUS", "DASH"}
    THEN Fold2(list, ptr)
    ELSE [st |-> "ok", list |-> list, ptr |-> ptr]

RECURSIVE Pass2Loop(_, _)
\* after the body: the exception leaves the loop, otherwise ptr++ and on
Pass2Step(body) ==
    IF body.st # "ok" THEN body ELSE Pass2Loop(body.list, body.ptr + 1)

\* pass 2's for loop, from position ptr on
Pass2Loop(list, ptr) ==
    IF ptr > Len(list) THEN [st |-> "ok", list |-> list]
    ELSE Pass2Step(Pass2Body(list, ptr))

RECURSIVE Pass2LoopBackwards(_, _)
\* after the body, stepping to the node before
Pass2StepBackwards(body) ==
    IF body.st # "ok" THEN body ELSE Pass2LoopBackwards(body.list, body.ptr - 1)

\* pass 2 scanning from the last node to the first: chains fold to the right
Pass2LoopBackwards(list, ptr) ==
    IF ptr < 1 THEN [st |-> "ok", list |-> list]
    ELSE Pass2StepBackwards(Pass2Body(list, ptr))

Pass2Backwards(list) == Pass2LoopBackwards(list, Len(list))

Pass2(list) == Pass2Loop(list, 1)

\* pass 2 on the result of pass 1, unless pass 1 threw
Pass2After(p1) == IF p1.st # "ok" THEN p1 ELSE Pass2(p1.list)

\* pass 1 on the result of pass 2, unless pass 2 threw
Pass1After(p2) == IF p2.st # "ok" THEN p2 ELSE Pass1(p2.list)

\* the two passes in the wrong order: addition and subtraction first
ProcessAdditiveFirst(list) == Pass1After(Pass2(list))

\* the code after the label process: pass 1, then pass 2 on its result
Process(list) == Pass2After(Pass1(list))

(***************************************************************************)
(* condenseAST: the grouping loop and the switch after it.                 *)
(*                                                                         *)
(* start is kept as an index; startErased is <<>> while the element start  *)
(* designates is in the list, and <<opener, closer>> once the loop has     *)
(* erased it (an opening bracket at start, replaced by its group).  The    *)
(* splice calls pass start to std::list::splice: with an erased element    *)
(* that is undefined behaviour, reported as st = "ub" together with the    *)
(* range the stale links of the freed opener would hand over.              *)
(***************************************************************************)
\* an exception on its way out of a call of condenseAST: held are the nodes
\* in the call's outputList, leaked those in the lists of the group nodes
\* that the calls it passed through had made with new and never deleted
Unwound(e, heldIn, leakedIn) ==
    [st |-> "throw", eType |-> e.eType, line |-> e.line, column |-> e.column,
     held |-> heldIn, leaked |-> leakedIn]

HeldOf(e) == IF "held" \in DOMAIN e THEN e.held ELSE <<>>

LeakedOf(e) == IF "leaked" \in DOMAIN e THEN e.leaked ELSE <<>>

\* the list of the level handed back with the processed range; a pass that
\* throws leaves the spliced nodes in outputList
Spliced(p, inputList, start, ptr) ==
    IF p.st # "ok" THEN Unwound(p, SubSeq(inputList, start, ptr - 1), <<>>)
    ELSE [st |-> "ok",
          inputList  |-> SubSeq(inputList, 1, start - 1)
                           \o SubSeq(inputList, ptr, Len(inputList)),
          outputList |-> p.list]

\* outputList.splice(outputList.begin(), inputList, start, ptr); goto process
SpliceAndProcess(inputList, start, startErased, ptr) ==
    IF startErased # <<>>
    THEN [st |-> "ub",
          outputList |-> startErased \o SubSeq(inputList, start + 1, ptr - 1)]
    ELSE Spliced(Process(SubSeq(inputList, start, ptr - 1)), inputList, start, ptr)

\* the loop goes on with the next node
Continue(inputList, startErased) ==
    [st |-> "continue", inputList |-> inputList, startErased |-> startErased]

\* the splice and the jump to the label process
GotoProcess == [st |-> "process"]

\* case RIGHT_PAREN of the loop's switch, for the closer at ptr
RightParen(inputList, ptr, type) ==
    IF type = "PAREN_GROUP"
    THEN GotoProcess
    ELSE Throw("INVALID_CLOSING_PAREN", inputList[ptr].line, inputList[ptr].column)

\* case RIGHT_SQUARE with the exception named after the bracket that is open
RightSquareNamesOpen(inputList, ptr, type) ==
    IF type = "SQUARE_GROUP"
    THEN GotoProcess
    ELSE Throw(CASE type = "PAREN_GROUP" -> "INVALID_CLOSING_PAREN"
                 [] type = "CURLY_GROUP" -> "INVALID_CLOSING_CURLY"
                 [] OTHER -> "INVALID_CLOSING_SQUARE",
               inputList[ptr].line, inputList[ptr].column)

\* case RIGHT_SQUARE
RightSquare(inputList, ptr, type) ==
    IF type = "SQUARE_GROUP"
    THEN GotoProcess
    ELSE Throw("INVALID_CLOSING_SQUARE", inputList[ptr].line, inputList[ptr].column)

\* case RIGHT_CURLY
RightCurly(inputList, ptr, type) ==
    IF type = "CURLY_GROUP"
    THEN GotoProcess
    ELSE Throw("INVALID_CLOSING_CURLY", inputList[ptr].line, inputList[ptr].column)

\* the switch (type) after the loop; ptr is inputList.end()
EndOfList(inputList, ptr, type) ==
    CASE type = "NONE" -> GotoProcess
      [] type = "PAREN_GROUP" ->
            Throw("MISSING_CLOSING_PAREN",
                  inputList[ptr - 1].line, inputList[ptr - 1].column)
      [] type = "SQUARE_GROUP" ->
            Throw("MISSING_CLOSING_SQUARE",
                  inputList[ptr - 1].line, inputList[ptr - 1].column)
      [] type = "CURLY_GROUP" ->
            Throw("MISSING_CLOSING_CURLY",
                  inputList[ptr - 1].line, inputList[ptr - 1].column)

\* inputList.insert(ptr, inserted); erase the opener at ptr and the closer after it
InsertAndErase(inputList, ptr, inserted) ==
    SubSeq(inputList, 1, ptr - 1) \o <<inserted>>
        \o SubSeq(inputList, ptr + 2, Len(inputList))

\* a parenthesised span that always becomes a paren group
ParenInsertedAlways(nodeListIn) == NodeParenGroup(nodeListIn)

\* what replaces a parenthesised span: its only expression, or a paren group
ParenInserted(nodeListIn) ==
    IF Len(nodeListIn) = 1 /\ nodeListIn[1].isExpr
    THEN nodeListIn[1]
    ELSE NodeParenGroup(nodeListIn)

\* the group type an opening bracket starts
OpenedType(token) ==
    CASE token = "LEFT_PAREN"  -> "PAREN_GROUP"
      [] token = "LEFT_SQUARE" -> "SQUARE_GROUP"
      [] token = "LEFT_CURLY"  -> "CURLY_GROUP"

\* the node inserted for the span an opening bracket started
Inserted(token, nodeListIn) ==
    CASE token = "LEFT_PAREN"  -> ParenInserted(nodeListIn)
      [] token = "LEFT_SQUARE" -> NodeSquareGroup(nodeListIn)
      [] token = "LEFT_CURLY"  -> NodeCurlyGroup(nodeListIn)

\* cases LEFT_PAREN, LEFT_SQUARE, LEFT_CURLY after the nested call returned
\* sub: the group goes in, opener and closer are deleted and erased; the
\* level's start dangles from then on if it designated the opener
Opened(sub, token, start, startErased, ptr) ==
    IF sub.st = "throw"
    \* no handler on the way: the group made with new is never deleted, and
    \* what the nested call had spliced into its list goes with it
    THEN Unwound(sub, <<>>, LeakedOf(sub) \o HeldOf(sub))
    ELSE IF sub.st # "ok" THEN sub
    ELSE Continue(InsertAndErase(sub.inputList, ptr,
                                 Inserted(token, sub.outputList)),
                  IF start = ptr
                  THEN <<sub.inputList[ptr], sub.inputList[ptr + 1]>>
                  ELSE startErased)

RECURSIVE condenseAST(_, _, _)
\* the loop's condition and body for the main pointer at ptr, and the switch
\* after the loop when ptr is the end
GroupBody(inputList, start, startErased, ptr, type) ==
    IF ptr > Len(inputList) THEN EndOfList(inputList, ptr, type)
    ELSE IF inputList[ptr].type # "TOKEN" THEN Continue(inputList, startErased)
    ELSE CASE inputList[ptr].token \in {"LEFT_PAREN", "LEFT_SQUARE", "LEFT_CURLY"} ->
                Opened(condenseAST(inputList, ptr + 1,
                                   OpenedType(inputList[ptr].token)),
                       inputList[ptr].token, start, startErased, ptr)
           [] inputList[ptr].token = "RIGHT_PAREN" ->
                RightParen(inputList, ptr, type)
           [] inputList[ptr].token = "RIGHT_SQUARE" ->
                RightSquare(inputList, ptr, type)
           [] inputList[ptr].token = "RIGHT_CURLY" ->
                RightCurly(inputList, ptr, type)
           [] OTHER -> Continue(inputList, startErased)

RECURSIVE GroupLoop(_, _, _, _, _)
\* where the body leads: ptr++ and the loop again, the splice and process,
\* or out of the function with the exception
GroupStep(body, inputList, start, startErased, ptr, type) ==
    CASE body.st = "continue" ->
            GroupLoop(body.inputList, start, body.startErased, ptr + 1, type)
      [] body.st = "process" ->
            SpliceAndProcess(inputList, start, startErased, ptr)
      [] OTHER -> body

\* the while loop, with the main pointer at ptr
GroupLoop(inputList, start, startErased, ptr, type) ==
    GroupStep(GroupBody(inputList, start, startErased, ptr, type),
              inputList, start, startErased, ptr, type)

condenseAST(inputList, start, type) ==
    GroupLoop(inputList, start, <<>>, start, type)

(***************************************************************************)
(* constructAST: wrap every token, promote the leaves, call condenseAST.   *)
(***************************************************************************)
\* the first pass's switch on the token type: the node that replaces origNode
PromoteLeaf(origNode) ==
    CASE origNode.token = "NUM_INT"    -> ExprInt(origNode)
      [] origNode.token = "NUM_FLOAT"  -> ExprFloat(origNode)
      [] origNode.token = "IDENTIFIER" -> ExprIdentifier(origNode)
      [] origNode.token = "TRUE"       -> ExprBool(origNode, 1)
      [] origNode.token = "FALSE"      -> ExprBool(origNode, 0)
      [] OTHER                         -> origNode

\* the identifier tokens that reach promotion without their string
LostStrings(tokens) ==
    {i \in 1..Len(tokens) : tokens[i].type = "IDENTIFIER" /\ ~tokens[i].hasStr}

\* how constructAST ended: st is "none" (still running), "ok" (returned 0),
\* "throw" (a CompilerException of kind eType at line, column) or "crash";
\* ub tells that an erased iterator was used on the way
Ended(stIn, eTypeIn, lineIn, columnIn, ubIn) ==
    [st |-> stIn, eType |-> eTypeIn, line |-> lineIn, column |-> columnIn,
     ub |-> ubIn]

NoError == Ended("none", "NONE", -1, -1, FALSE)

\* the first loops of constructAST
ConstructAST ==
    /\ pc = "construct"
    /\ IF LostStrings(tokenList) # {}
       THEN LET i == CHOOSE j \in LostStrings(tokenList) :
                        \A k \in LostStrings(tokenList) : j <= k
            IN  /\ result' = Ended("throw", "UNKNOWN", tokenList[i].line,
                                   tokenList[i].column, FALSE)
                /\ pc' = "done"
                /\ UNCHANGED <<tokenList, nodeList>>
       ELSE /\ nodeList' = [i \in 1..Len(tokenList) |->
                               PromoteLeaf(NodeToken(tokenList[i]))]
            \* ExprIdentifier takes the token's string with it
            /\ tokenList' = [i \in 1..Len(tokenList) |->
                               IF tokenList[i].type = "IDENTIFIER"
                               THEN TokenDrained(tokenList[i])
                               ELSE tokenList[i]]
            /\ pc' = "condense"
            /\ UNCHANGED result
    /\ UNCHANGED <<outputList, regVars, lexVars, emitVars, rc>>

\* the ways a call that used an erased iterator can end: the build crashes
\* (a checked iterator, a fault on the freed links), or splice follows the
\* freed node's links as they were left and the call returns that range
UndefinedOutcomes(r) ==
    { [result |-> Ended("crash", "NONE", -1, -1, TRUE), outputList |-> <<>>,
       leaked |-> <<>>],
      [result |-> Ended("ok", "NONE", -1, -1, TRUE), outputList |-> r.outputList,
       leaked |-> <<>>] }

\* how constructAST ends for what condenseAST did
OutcomesOf(r) ==
    CASE r.st = "ok" ->
            {[result |-> Ended("ok", "NONE", -1, -1, FALSE),
              outputList |-> r.outputList, leaked |-> <<>>]}
      [] r.st = "throw" ->
            {[result |-> Ended("throw", r.eType, r.line, r.column, FALSE),
              outputList |-> <<>>, leaked |-> Strings(LeakedOf(r), <<>>)]}
      [] r.st = "ub" ->
            UndefinedOutcomes(r)

\* condenseAST(nodeList, outputList, nodeList.begin(), NodeType::NONE)
CondenseOutcomes(list) == OutcomesOf(condenseAST(list, 1, "NONE"))

\* the stack unwinding of an exception of condenseAST: ~NodeList of
\* constructAST's nodeList and of compile_'s ast delete the nodes they hold,
\* which are all the nodes but the leaked ones
Unwinding(h, nodes, leaked) ==
    DeleteAll(h, SelectSeq(Strings(nodes, <<>>),
                           LAMBDA p : \A k \in 1..Len(leaked) : leaked[k] # p))

CondenseAST ==
    /\ pc = "condense"
    /\ \E o \in CondenseOutcomes(nodeList) :
           /\ result' = o.result
           /\ outputList' = o.outputList
           /\ heap' = IF o.result.st = "throw"
                      THEN Unwinding(heap, nodeList, o.leaked)
                      ELSE heap
    /\ nodeList' = <<>>
    /\ pc' = "done"
    /\ UNCHANGED <<tokenList, regVars, src, lex, emitVars, rc>>

(***************************************************************************)
(* RegManager (compiler.cpp).                                              *)
(***************************************************************************)
\* RegManager::RegManager()
NewWordsActive == [i \in 0..(NUM_WORD_REGISTERS - 1) |-> FALSE]

NewBytesActive == [i \in 0..(NUM_BYTE_REGISTERS - 1) |-> FALSE]

\* the for loop of getWord, from index i on
RECURSIVE GetWordLoop(_, _)
GetWordLoop(active, i) ==
    IF i < NUM_WORD_REGISTERS
    THEN IF ~active[i]
         THEN [threw |-> FALSE, reg |-> i + W0,
               active |-> [active EXCEPT ![i] = TRUE]]
         ELSE GetWordLoop(active, i + 1)
    ELSE \* CompilerException(OUT_OF_REGISTERS, -1, -1)
         [threw |-> TRUE, reg |-> -1, active |-> active]

\* getWord, off by one: the scan starts at the second register
getWordFromOne(active) == GetWordLoop(active, 1)

getWord(active) == GetWordLoop(active, 0)

\* freeWord(reg)
freeWord(active, reg) == [active EXCEPT ![reg - W0] = FALSE]

\* the for loop of getByte, from index i on
RECURSIVE GetByteLoop(_, _, _)
GetByteLoop(active, i, n) ==
    IF i < n
    THEN IF ~active[i]
         THEN [threw |-> FALSE, reg |-> i + B0,
               active |-> [active EXCEPT ![i] = TRUE]]
         ELSE GetByteLoop(active, i + 1, n)
    ELSE [threw |-> TRUE, reg |-> -1, active |-> active]

\* getByte, off by one: the scan stops before the last register
getByteShort(active) == GetByteLoop(active, 0, NUM_BYTE_REGISTERS - 1)

getByte(active) == GetByteLoop(active, 0, NUM_BYTE_REGISTERS)

\* freeByte(reg)
freeByte(active, reg) == [active EXCEPT ![reg - B0] = FALSE]

\* the ids of the two pools
WordRegs == {i + W0 : i \in 0..(NUM_WORD_REGISTERS - 1)}

ByteRegs == {i + B0 : i \in 0..(NUM_BYTE_REGISTERS - 1)}

\* lastCall: the call, the register it returned or released, whether it
\* threw OUT_OF_REGISTERS, the pools before it, and the register the call
\* before it released (-1 if that was no release)
Call(opIn, regIn, threwIn) ==
    [op |-> opIn, reg |-> regIn, threw |-> threwIn,
     words |-> wordsActive, bytes |-> bytesActive,
     freed |-> IF lastCall.op \in {"freeWord", "freeByte"}
               THEN lastCall.reg ELSE -1]

NoCall == [op |-> "none", reg |-> -1, threw |-> FALSE,
           words |-> NewWordsActive, bytes |-> NewBytesActive, freed |-> -1]

GetWord ==
    /\ LET r == getWord(wordsActive) IN
          /\ wordsActive' = r.active
          /\ lastCall' = Call("getWord", r.reg, r.threw)
    /\ UNCHANGED <<bytesActive, astVars, lexVars, emitVars, rc>>

FreeWord ==
    /\ \E reg \in WordRegs :
          /\ wordsActive' = freeWord(wordsActive, reg)
          /\ lastCall' = Call("freeWord", reg, FALSE)
    /\ UNCHANGED <<bytesActive, astVars, lexVars, emitVars, rc>>

GetByte ==
    /\ LET r == getByte(bytesActive) IN
          /\ bytesActive' = r.active
          /\ lastCall' = Call("getByte", r.reg, r.threw)
    /\ UNCHANGED <<wordsActive, astVars, lexVars, emitVars, rc>>

FreeByte ==
    /\ \E reg \in ByteRegs :
          /\ bytesActive' = freeByte(bytesActive, reg)
          /\ lastCall' = Call("freeByte", reg, FALSE)
    /\ UNCHANGED <<wordsActive, astVars, lexVars, emitVars, rc>>

(***************************************************************************)
(* Characters.  A char is a one-character string; a text is a sequence of  *)
(* chars.  NUL, TAB, ESC and LF are the characters the escapes of a string *)
(* literal produce.                                                        *)
(***************************************************************************)
NUL == "NUL"

TAB == "TAB"

ESC == "ESC"

LF == "\n"

DQ == "\""

BS == "\\"

\* the backquote, which a string of this language cannot hold
BQ == "BQ"

\* the char tokenize starts with: char c = -1
NOCHAR == "EOF"

DecimalDigits == <<"0", "1", "2", "3", "4", "5", "6", "7", "8", "9">>

UpperCase == <<"A", "B", "C", "D", "E", "F", "G", "H", "I", "J", "K", "L", "M",
               "N", "O", "P", "Q", "R", "S", "T", "U", "V", "W", "X", "Y", "Z">>

LowerCase == <<"a", "b", "c", "d", "e", "f", "g", "h", "i", "j", "k", "l", "m",
               "n", "o", "p", "q", "r", "s", "t", "u", "v", "w", "x", "y", "z">>

\* c - first for a character c of the range first..last
OffsetIn(range, c) == (CHOOSE i \in 1..Len(range) : range[i] = c) - 1

IsIn(range, c) == \E i \in 1..Len(range) : range[i] = c

\* '0' <= c && c <= '9'
IsDigit(c) == IsIn(DecimalDigits, c)

\* ('A' <= c && c <= 'Z') || ('a' <= c && c <= 'z')
IsLetter(c) == IsIn(UpperCase, c) \/ IsIn(LowerCase, c)

(***************************************************************************)
(* parseNumber (compiler.cpp).  int_t is a signed integer of INT_BITS bits  *)
(* (32 in the build, fewer here so that a short numeral leaves its range): *)
(* an int_ *= base or int_ += digit that leaves the range is undefined     *)
(* behaviour; the value carried on is the wrapped one and ub is set.       *)
(***************************************************************************)
\* the bits of int_t
INT_BITS == 16

\* the value of the 32 bits of n as a signed integer
Wrap(n) ==
    LET m == n % (2 ^ INT_BITS) IN
    IF m >= 2 ^ (INT_BITS - 1) THEN m - 2 ^ INT_BITS ELSE m

InIntRange(n) == -(2 ^ (INT_BITS - 1)) <= n /\ n < 2 ^ (INT_BITS - 1)

\* the digit value of c as the loops compute it, or -1 where they return 1:
\* a character that is no digit and no letter, or a digit value >= base
DigitOf(c, base) ==
    LET v == IF IsDigit(c) THEN OffsetIn(DecimalDigits, c)
             ELSE IF IsIn(UpperCase, c) THEN OffsetIn(UpperCase, c) + 10
             ELSE IF IsIn(LowerCase, c) THEN OffsetIn(LowerCase, c) + 10
             ELSE -1
    IN  IF v >= base THEN -1 ELSE v

\* the character at index i of the C string (0-based); the terminator after it
CharAt(text, i) == IF i < Len(text) THEN text[i + 1] ELSE NUL

\* the base-setting pattern with an upper-case X taken as 0x
PrefixUpperX(text) ==
    IF CharAt(text, 0) = "0" /\ ~IsDigit(CharAt(text, 1))
    THEN CASE CharAt(text, 1) \in {"x", "X"} ->
                                       [fail |-> FALSE, base |-> 16, from |-> 2]
           [] CharAt(text, 1) = "b" -> [fail |-> FALSE, base |-> 2, from |-> 2]
           [] CharAt(text, 1) \in {".", NUL} ->
                                       [fail |-> FALSE, base |-> 10, from |-> 1]
           [] CharAt(text, 1) = "d" -> [fail |-> FALSE, base |-> 10, from |-> 2]
           [] OTHER                 -> [fail |-> TRUE, base |-> 10, from |-> 2]
    ELSE [fail |-> FALSE, base |-> 10, from |-> 0]

\* the base-setting pattern at the start: the base and the index the loop
\* starts from, or fail
Prefix(text) ==
    IF CharAt(text, 0) = "0" /\ ~IsDigit(CharAt(text, 1))
    THEN CASE CharAt(text, 1) = "x" -> [fail |-> FALSE, base |-> 16, from |-> 2]
           [] CharAt(text, 1) = "b" -> [fail |-> FALSE, base |-> 2, from |-> 2]
           [] CharAt(text, 1) \in {".", NUL} ->
                                       [fail |-> FALSE, base |-> 10, from |-> 1]
           [] CharAt(text, 1) = "d" -> [fail |-> FALSE, base |-> 10, from |-> 2]
           [] OTHER                 -> [fail |-> TRUE, base |-> 10, from |-> 2]
    ELSE [fail |-> FALSE, base |-> 10, from |-> 0]

\* the inner loop over the characters after the decimal point: the digits
\* read, or fail
RECURSIVE FracLoop(_, _, _, _)
FracLoop(text, i, base, frac) ==
    IF CharAt(text, i) = NUL THEN [fail |-> FALSE, frac |-> frac]
    ELSE IF DigitOf(CharAt(text, i), base) < 0 THEN [fail |-> TRUE, frac |-> frac]
    ELSE FracLoop(text, i + 1, base,
                  Append(frac, DigitOf(CharAt(text, i), base)))

\* the float the inner loop leaves for the whole part int_
FloatOf(fl, int_, ub) ==
    [fail |-> fl.fail, isFloat |-> TRUE, int_ |-> int_,
     float_ |-> [whole |-> int_, frac |-> fl.frac], ub |-> ub]

\* the outer loop from index i on with int_ so far
RECURSIVE IntLoop(_, _, _, _, _)
IntLoop(text, i, base, int_, ub) ==
    IF CharAt(text, i) = NUL
    THEN [fail |-> FALSE, isFloat |-> FALSE, int_ |-> int_,
          float_ |-> NoFloat, ub |-> ub]
    ELSE IF CharAt(text, i) = "."
    THEN FloatOf(FracLoop(text, i + 1, base, <<>>), int_, ub)
    ELSE IF DigitOf(CharAt(text, i), base) < 0
    THEN [fail |-> TRUE, isFloat |-> FALSE, int_ |-> int_,
          float_ |-> NoFloat, ub |-> ub \/ ~InIntRange(int_ * base)]
    ELSE IntLoop(text, i + 1, base,
                 Wrap(Wrap(int_ * base) + DigitOf(CharAt(text, i), base)),
                 \/ ub
                 \/ ~InIntRange(int_ * base)
                 \/ ~InIntRange(Wrap(int_ * base)
                                  + DigitOf(CharAt(text, i), base)))

\* a successful return that rewrites the kind and keeps the string
RewrittenKeepsText(token, n) ==
    [token EXCEPT !.type = IF n.isFloat THEN "NUM_FLOAT" ELSE "NUM_INT",
                  !.int_ = IF n.isFloat THEN 0 ELSE n.int_,
                  !.float_ = n.float_]

\* the token as the successful return leaves it: the string deleted, the
\* number in its place
Rewritten(token, n) ==
    [token EXCEPT !.hasStr = FALSE,
                  !.str = <<>>,
                  !.ptr = 0,
                  !.type = IF n.isFloat THEN "NUM_FLOAT" ELSE "NUM_INT",
                  !.int_ = IF n.isFloat THEN 0 ELSE n.int_,
                  !.float_ = n.float_]

\* what the loops leave: return 1 with the token as it was, or return 0
\* with the token rewritten; deleted is the pointer handed to delete (0 when
\* there was no delete)
Parsed(token, n) ==
    IF n.fail THEN [rc |-> 1, token |-> token, ub |-> n.ub, deleted |-> 0]
    ELSE [rc |-> 0, token |-> Rewritten(token, n), ub |-> n.ub,
          deleted |-> token.ptr]

\* the loops, entered where the prefix leaves str
AfterPrefix(token, pre) ==
    IF pre.fail THEN [rc |-> 1, token |-> token, ub |-> FALSE, deleted |-> 0]
    ELSE Parsed(token, IntLoop(token.str, pre.from, pre.base, 0, FALSE))

\* parseNumber(token): the return value and the token after the call
parseNumber(token) ==
    IF token.type # "NUM_UNIDENTIFIED"
    THEN [rc |-> 1, token |-> token, ub |-> FALSE, deleted |-> 0]
    ELSE IF CharAt(token.str, 0) = NUL
    THEN [rc |-> 1, token |-> token, ub |-> FALSE, deleted |-> 0]
    ELSE AfterPrefix(token, Prefix(token.str))

\* the ways a call of parseNumber ends: it returns; where an int_ left its
\* range, it returns with the wrapped value or the build traps
ParseOutcomes(token) ==
    LET r == parseNumber(token) IN
    IF r.ub
    THEN {[rc |-> r.rc, token |-> r.token, st |-> "ok", ub |-> TRUE,
           deleted |-> r.deleted],
          [rc |-> -1, token |-> token, st |-> "crash", ub |-> TRUE, deleted |-> 0]}
    ELSE {[rc |-> r.rc, token |-> r.token, st |-> "ok", ub |-> FALSE,
           deleted |-> r.deleted]}

\* parseNumber(tokenList.back()) on its own
ParseNumber ==
    /\ pc = "parse"
    /\ \E o \in ParseOutcomes(tokenList[Len(tokenList)]) :
          /\ tokenList' = [tokenList EXCEPT ![Len(tokenList)] = o.token]
          /\ rc' = o.rc
          /\ result' = [st |-> o.st, eType |-> "NONE", line |-> -1,
                        column |-> -1, ub |-> o.ub]
          /\ heap' = DeleteAll(heap, <<o.deleted>>)
    /\ pc' = "done"
    /\ UNCHANGED <<nodeList, outputList, regVars, src, lex, emitVars>>

(***************************************************************************)
(* tokenize (compiler.cpp).  One step is one pass of the while loop.       *)
(*                                                                         *)
(* str is the working buffer char str[MAX_STR_SIZE + 1], kept as the cells *)
(* 0 .. strlen (cell i at index i + 1); the cells above strlen are written *)
(* before they are read again and are dropped, cell 0 is kept: block       *)
(* comment mode sets strlen to 1 without writing it.  A cell never written *)
(* holds UNINIT.  ub is set by a write above cell MAX_STR_SIZE, by the     *)
(* read of a cell never written and by an int_t leaving its range.         *)
(***************************************************************************)
\* MAX_STR_SIZE, 1024 in compiler.h
MAX_STR_SIZE == 3

UNINIT == "UNINIT"

\* what a cell never written may hold
GarbageChars == {"g", NUL}

token1s == <<"~", BQ, "!", "@", "#", "$", "%", "^", "&", "*", "_", "-", "+", "=",
             "|", BS, ":", ";", DQ, "'", ",", ".", "?", "/",
             "(", ")", "[", "]", "{", "}", "<", ">">>

\* the TokenType values from firstToken1 on
Token1Types == <<"TILDE", "BTICK", "EXPT", "AT", "HASH", "DOLLAR", "PCT", "CARET",
                 "AMP", "STAR", "USCORE", "DASH", "PLUS", "EQUALS", "PIPE",
                 "BSLASH", "COLON", "SEMICOLON", "DBLQUOTE", "QUOTE", "COMMA",
                 "PERIOD", "QMARK", "SLASH", "LEFT_PAREN", "RIGHT_PAREN",
                 "LEFT_SQUARE", "RIGHT_SQUARE", "LEFT_CURLY", "RIGHT_CURLY",
                 "LEFT_ANGLE", "RIGHT_ANGLE">>

token2s == <<[first |-> "PLUS", second |-> "="],
             [first |-> "DASH", second |-> "="],
             [first |-> "STAR", second |-> "="],
             [first |-> "SLASH", second |-> "="],
             [first |-> "PCT", second |-> "="],
             [first |-> "EQUALS", second |-> "="],
             [first |-> "LEFT_ANGLE", second |-> "="],
             [first |-> "RIGHT_ANGLE", second |-> "="],
             [first |-> "PLUS", second |-> "+"],
             [first |-> "DASH", second |-> "-"],
             [first |-> "SLASH", second |-> "/"],
             [first |-> "SLASH", second |-> "*"],
             [first |-> "STAR", second |-> "/"]>>

\* the TokenType values from firstToken2 on
Token2Types == <<"PLUS_EQUALS", "DASH_EQUALS", "STAR_EQUALS", "SLASH_EQUALS",
                 "PCT_EQUALS", "EQ_EQUALS", "LEFT_ANGLE_EQUALS",
                 "RIGHT_ANGLE_EQUALS", "PLUS_PLUS", "DASH_DASH", "SLASH_SLASH",
                 "SLASH_STAR", "STAR_SLASH">>

keywords == <<<<"i", "n", "t">>, <<"f", "l", "o", "a", "t">>, <<"b", "o", "o", "l">>,
              <<"c", "h", "a", "r">>, <<"r", "e", "t", "u", "r", "n">>,
              <<"w", "h", "i", "l", "e">>, <<"f", "o", "r">>, <<"i", "f">>,
              <<"e", "l", "s", "e">>, <<"e", "l", "i", "f">>, <<"a", "n", "d">>,
              <<"o", "r">>, <<"t", "r", "u", "e">>, <<"f", "a", "l", "s", "e">>>>

\* the TokenType values from firstKeyword on
KeywordTypes == <<"INT", "FLOAT", "BOOL", "CHAR_", "RETURN", "WHILE", "FOR", "IF",
                  "ELSE", "ELIF", "AND", "OR", "TRUE", "FALSE">>

\* stringMatchAt(match, strings, len): the index of the string equal to
\* match, or -1
stringMatchAt(match, strings) ==
    IF \E i \in 1..Len(strings) : strings[i] = match
    THEN (CHOOSE i \in 1..Len(strings) : strings[i] = match) - 1
    ELSE -1

\* the loop over token1s: the token type of c, or "NONE" for -1
Token1Of(c) ==
    IF IsIn(token1s, c) THEN Token1Types[OffsetIn(token1s, c) + 1] ELSE "NONE"

\* the loop over token2s: the first pair of token1Index and c, or "NONE"
Token2Of(token1Index, c) ==
    LET hits == {i \in 1..Len(token2s) :
                    token2s[i].second = c /\ token2s[i].first = token1Index}
    IN  IF hits = {} THEN "NONE"
        ELSE Token2Types[CHOOSE i \in hits : \A j \in hits : i <= j]

\* tokenize's locals as declared; pos counts the characters read from file
NoLex ==
    [c |-> NOCHAR, pos |-> 0, line |-> 0, column |-> -1, end |-> FALSE,
     isComment |-> FALSE, isBlockComment |-> FALSE, isStr |-> FALSE,
     isEscaped |-> FALSE, isNumber |-> FALSE, hasDecimal |-> FALSE,
     token1Index |-> "NONE", str |-> <<UNINIT>>, strlen |-> 0, ub |-> FALSE]

\* the head of the loop: line and column move on, file.get(c), which leaves
\* c as it was at the end of the file
Advance(l, file) ==
    LET moved == IF l.c = LF
                 THEN [l EXCEPT !.line = @ + 1, !.column = 0]
                 ELSE [l EXCEPT !.column = @ + 1]
    IN  IF l.pos < Len(file)
        THEN [moved EXCEPT !.c = file[l.pos + 1], !.pos = @ + 1]
        ELSE [moved EXCEPT !.end = TRUE]

\* str[i] = ch
SetCell(str, i, ch) ==
    IF i < Len(str) THEN [str EXCEPT ![i + 1] = ch] ELSE Append(str, ch)

\* str[strlen++] = c
Put(l, ch) ==
    [l EXCEPT !.str = SetCell(@, l.strlen, ch),
              !.strlen = @ + 1,
              !.ub = @ \/ l.strlen > MAX_STR_SIZE]

\* str[strlen] = '\0'
Terminated(l) ==
    [l EXCEPT !.str = SetCell(@, l.strlen, NUL),
              !.ub = @ \/ l.strlen > MAX_STR_SIZE]

\* strlen = 0
Reset(l) == [l EXCEPT !.strlen = 0, !.str = <<@[1]>>]

\* std::string(str): the characters before the first NUL
CStr(str) ==
    LET n == CHOOSE i \in 1..Len(str) :
                 str[i] = NUL /\ \A j \in 1..(i - 1) : str[j] # NUL
    IN  SubSeq(str, 1, n - 1)

\* the pass goes on to the next one, or throws at line, column; deleted is
\* the pointer the pass handed to delete (0 when it deleted nothing)
Run(l, toks) == [lex |-> l, tokens |-> toks, exc |-> "NONE", deleted |-> 0]

Raise(l, toks, e) == [lex |-> l, tokens |-> toks, exc |-> e, deleted |-> 0]

\* escape sequences without the one for the tabulator
EscapeMapNoTab(c) ==
    CASE c = "n" -> LF
      [] c = "c" -> ESC
      [] c = "0" -> NUL
      [] OTHER   -> c

\* the escape sequences of string mode
EscapeMap(c) ==
    CASE c = "n" -> LF
      [] c = "c" -> ESC
      [] c = "0" -> NUL
      [] c = "t" -> TAB
      [] OTHER   -> c

\* a length check that lets one more character in
StrAppendLate(l, toks) ==
    IF l.strlen > MAX_STR_SIZE
    THEN Raise(l, toks, "STRING_TOO_LONG")
    ELSE Run(Put(l, l.c), toks)

\* the end of string mode: the length check and str[strlen++] = c
StrAppend(l, toks) ==
    IF l.strlen >= MAX_STR_SIZE
    THEN Raise(l, toks, "STRING_TOO_LONG")
    ELSE Run(Put(l, l.c), toks)

\* if (isStr) { ... }
StrMode(l, toks) ==
    IF l.isEscaped
    THEN StrAppend([l EXCEPT !.c = EscapeMap(l.c),
                             !.line = IF l.c = "n" THEN @ - 1 ELSE @,
                             !.isEscaped = FALSE], toks)
    ELSE IF l.c = DQ
    THEN LET t == Terminated([l EXCEPT !.isStr = FALSE])
         IN  Run(Reset([t EXCEPT !.token1Index = "NONE"]),
                 EmplaceBack(toks, Token4("STRING", l.line, l.column, CStr(t.str))))
    ELSE IF l.c = BS
    THEN Run([l EXCEPT !.isEscaped = TRUE], toks)
    ELSE StrAppend(l, toks)

\* if (isBlockComment) { ... }: strlen is the flag "the last character was
\* a star"; str is not written
BlockMode(l, toks) ==
    IF l.strlen = 1 /\ l.c = "/"
    THEN Run([l EXCEPT !.isBlockComment = FALSE], toks)
    ELSE IF l.c = "*"
    THEN Run([l EXCEPT !.strlen = 1], toks)
    ELSE Run([l EXCEPT !.strlen = 0], toks)

\* if (isComment) { ... }
LineMode(l, toks) ==
    IF l.c = LF THEN Run([l EXCEPT !.isComment = FALSE], toks) ELSE Run(l, toks)

\* the two conditions of if (isNumber) under which the numeral goes on
IsBasePrefix(l) ==
    l.strlen = 1 /\ l.str[1] = "0" /\ l.c \in {"x", "b"}

IsNumberChar(l) ==
    \/ ~l.end /\ IsDigit(l.c)
    \/ IsIn(UpperCase, l.c)
    \/ IsIn(LowerCase, l.c)
    \/ l.c = "." /\ ~l.hasDecimal

NumberContinues(l) == IsBasePrefix(l) \/ IsNumberChar(l)

\* if (isNumber) { ... } where the numeral goes on
NumberMode(l, toks) ==
    IF IsBasePrefix(l)
    THEN Run(Put(l, l.c), toks)
    ELSE Run(Put([l EXCEPT !.hasDecimal = @ \/ l.c = "."], l.c), toks)

\* the working string becomes a token: a numeral, a keyword or an identifier
Flushed(l, toks) ==
    IF l.strlen = 0 THEN Run(l, toks)
    ELSE LET t == Terminated(l)
             text == CStr(t.str)
         IN  IF l.isNumber
             THEN LET back == EmplaceBack(toks, Token4("NUM_UNIDENTIFIED",
                                                       l.line, l.column, text))
                      p == parseNumber(back[Len(back)])
                  IN  IF p.rc # 0
                      THEN Raise(t, back, "INVALID_NUMBER")
                      ELSE [Run([t EXCEPT !.ub = @ \/ p.ub],
                                Append(toks, p.token))
                               EXCEPT !.deleted = p.deleted]
             ELSE LET keyword == stringMatchAt(text, keywords)
                  IN  IF keyword >= 0
                      THEN Run(t, Append(toks, Token3(KeywordTypes[keyword + 1],
                                                      l.line, l.column)))
                      ELSE Run(t, EmplaceBack(toks, Token4("IDENTIFIER", l.line,
                                                           l.column, text)))

\* after the token: the trackers are reset and c starts the next token
AfterFlush(l) ==
    LET fresh == Reset([l EXCEPT !.isNumber = FALSE])
    IN  IF l.c = DQ
        THEN [fresh EXCEPT !.isStr = TRUE, !.isEscaped = FALSE]
        ELSE IF IsDigit(l.c)
        THEN Put([fresh EXCEPT !.isNumber = TRUE, !.hasDecimal = FALSE], l.c)
        ELSE fresh

\* the condition of "At the end of a token..."
AtBoundary(l) ==
    \/ l.token1Index # "NONE"
    \/ l.c \in {" ", LF, TAB, DQ}
    \/ IsDigit(l.c)
    \/ l.isNumber
    \/ l.end

\* from "Check to see if the current char is a token1" to the end of the loop
Boundary(l0, toks) ==
    LET l == [l0 EXCEPT !.token1Index = Token1Of(l0.c)]
    IN  IF AtBoundary(l)
        THEN LET f == Flushed(l, toks)
             IN  IF f.exc # "NONE" THEN f ELSE [f EXCEPT !.lex = AfterFlush(f.lex)]
        ELSE IF l.strlen >= MAX_STR_SIZE
        THEN Raise(l, toks, "STRING_TOO_LONG")
        ELSE Run(Put(l, l.c), toks)

\* a token2 was matched: the two comment flags, the token, the reset
Token2Matched(l, toks, token2Index) ==
    LET flagged == [l EXCEPT
                      !.isComment = @ \/ token2Index = "SLASH_SLASH",
                      !.isBlockComment = @ \/ token2Index = "SLASH_STAR",
                      !.token1Index = "NONE"]
    IN  Run(Reset(flagged),
            IF token2Index = "SLASH_STAR" THEN toks
            ELSE Append(toks, Token3(token2Index, l.line, l.column)))

\* token processing, from "If the PREVIOUS token was matched a token1" on
TokenMode(l, toks) ==
    IF l.token1Index # "NONE"
    THEN IF Token2Of(l.token1Index, l.c) # "NONE"
         THEN Token2Matched(l, toks, Token2Of(l.token1Index, l.c))
         ELSE Boundary(l, Append(toks, Token3(l.token1Index, l.line, l.column)))
    ELSE Boundary(l, toks)

\* the ways a pass of the loop ends: it goes on or throws; where it wrote
\* outside str, read a cell never written or left the range of int_t, the
\* build may also trap
LexOutcomes(r) ==
    LET ended == IF r.exc = "NONE" THEN result
                 ELSE Ended("throw", r.exc, r.lex.line, r.lex.column, r.lex.ub)
        goesOn == [lex |-> r.lex, tokens |-> r.tokens, result |-> ended,
                   pc |-> IF r.exc = "NONE" THEN "tokenize" ELSE "done"]
    IN  IF r.lex.ub /\ ~lex.ub
        THEN {goesOn,
              [lex |-> r.lex, tokens |-> r.tokens,
               result |-> Ended("crash", "NONE", -1, -1, TRUE), pc |-> "done"]}
        ELSE {goesOn}

\* the heap after a pass: the tokens it appended with a string have their
\* new buffer, then the pass's delete
HeapAfter(h, r) ==
    DeleteAll(h \o [i \in 1..(Len(r.tokens) - Len(h)) |->
                       IF r.tokens[Len(h) + i].hasStr \/ r.deleted = Len(h) + i
                       THEN "live" ELSE "none"],
              <<r.deleted>>)

\* the pass's effect on the program's state
TokStep(r) ==
    /\ \E o \in LexOutcomes(r) :
          /\ lex' = o.lex
          /\ tokenList' = o.tokens
          /\ result' = o.result
          /\ pc' = o.pc
    /\ heap' = HeapAfter(heap, r)
    /\ UNCHANGED <<nodeList, outputList, regVars, src, emitVars, rc>>

\* c and the position after the head of the loop
Adv == Advance(lex, src)

InLoop == pc = "tokenize" /\ ~lex.end

\* a pass in string mode
StringChar ==
    /\ InLoop
    /\ Adv.isStr
    /\ TokStep(StrMode(Adv, tokenList))

\* a pass in block comment mode; the pass that ends the comment leaves
\* strlen at 1, so that cell 0 of str is read from then on: where it was
\* never written, it holds any character
BlockCommentChar ==
    /\ InLoop
    /\ ~Adv.isStr /\ Adv.isBlockComment
    /\ LET r == BlockMode(Adv, tokenList)
       IN  IF ~r.lex.isBlockComment /\ r.lex.str[1] = UNINIT
           THEN \E g \in GarbageChars :
                   TokStep([r EXCEPT !.lex.str = <<g>>, !.lex.ub = TRUE])
           ELSE TokStep(r)

\* a pass in line comment mode
LineCommentChar ==
    /\ InLoop
    /\ ~Adv.isStr /\ ~Adv.isBlockComment /\ Adv.isComment
    /\ TokStep(LineMode(Adv, tokenList))

\* a pass that adds c to the numeral
NumberChar ==
    /\ InLoop
    /\ ~Adv.isStr /\ ~Adv.isBlockComment /\ ~Adv.isComment
    /\ Adv.isNumber /\ NumberContinues(Adv)
    /\ TokStep(NumberMode(Adv, tokenList))

\* a pass of token processing
TokenChar ==
    /\ InLoop
    /\ ~Adv.isStr /\ ~Adv.isBlockComment /\ ~Adv.isComment
    /\ ~(Adv.isNumber /\ NumberContinues(Adv))
    /\ TokStep(TokenMode(Adv, tokenList))

\* while (!end) is left and tokenize returns 0
TokenizeReturn ==
    /\ pc = "tokenize"
    /\ lex.end
    /\ pc' = "construct"
    /\ UNCHANGED <<tokenList, nodeList, outputList, result, regVars, lexVars,
                   emitVars, rc>>

(***************************************************************************)
(* makeBytecode, makeExprBytecode and the ASM_WRITE macro (compiler.cpp).  *)
(* output holds one entry for each outputFile.write: the number of bytes   *)
(* and the value whose bytes they are.                                     *)
(***************************************************************************)
\* sizeof(opcode_t), sizeof(reg_t), sizeof(int_t)
SizeOfOpcode == 1

SizeOfReg == 1

SizeOfInt == 4

\* opcode::MOV_W
MOV_W == "MOV_W"

\* the output file and the byte counter, with makeBytecode's locals as they
\* are declared: RegManager reg, reg_t rid1 = 0
Emitted(outputIn, byteCounterIn) ==
    [output |-> outputIn, byteCounter |-> byteCounterIn, threw |-> FALSE,
     ridOut |-> 0, reg |-> NewWordsActive, call |-> NoCall]

\* a write that leaves the counter where it was
AsmWriteUncounted(e, thing, size) ==
    [e EXCEPT !.output = Append(@, [size |-> size, value |-> thing])]

\* ASM_WRITE(thing, type)
AsmWrite(e, thing, size) ==
    [e EXCEPT !.output = Append(@, [size |-> size, value |-> thing]),
              !.byteCounter = @ + size]

\* reg.getWord() in makeExprBytecode, as RegManager sees it
GetWordCall(reg, got) ==
    [op |-> "getWord", reg |-> got.reg, threw |-> got.threw,
     words |-> reg, bytes |-> NewBytesActive, freed |-> -1]

\* makeExprBytecode(expr, reg, outputFile, byteCounter, stream); reg is the
\* function's own RegManager, the result's reg is that pool at the return
makeExprBytecode(expr, reg, e) ==
    IF expr.type = "INT"
    THEN LET got == getWord(reg)
         IN  IF got.threw
             THEN [e EXCEPT !.threw = TRUE, !.reg = got.active,
                            !.call = GetWordCall(reg, got)]
             ELSE [AsmWrite(AsmWrite(AsmWrite(e, MOV_W, SizeOfOpcode),
                                     got.reg, SizeOfReg),
                            expr.int_, SizeOfInt)
                      EXCEPT !.ridOut = got.reg, !.reg = got.active,
                             !.call = GetWordCall(reg, got)]
    ELSE [e EXCEPT !.reg = reg]

\* the parameter declared RegManager& reg: the caller's pool is the pool
\* the callee worked on
ByReference(reg, r) == r

\* the parameter RegManager reg of makeExprBytecode is passed by value: the
\* callee works on a copy, the caller's pool is after the call what it was
\* before
ByValue(reg, r) == [r EXCEPT !.reg = reg]

\* makeBytecode(list, outputFile, stream) on a list that has a first node
makeBytecode(list, outputIn) ==
    IF list[1].isExpr
    THEN ByValue(NewWordsActive,
                 makeExprBytecode(list[1], NewWordsActive,
                                  Emitted(outputIn, 0)))
    ELSE Emitted(outputIn, 0)

\* what the cell *list.begin() of an empty list may read as
GarbageInts == {0, 1}

\* the ways makeBytecode ends.  On an empty list *list.begin() reads the
\* list's sentinel: the build crashes, finds no expression there, or emits
\* for whatever the cell holds
EmitOutcomes(list, outputIn) ==
    IF list = <<>>
    THEN {[st |-> "crash", e |-> Emitted(outputIn, 0), ub |-> TRUE],
          [st |-> "ok", e |-> Emitted(outputIn, 0), ub |-> TRUE]}
         \cup {[st |-> "ok", ub |-> TRUE,
                e |-> ByValue(NewWordsActive,
                              makeExprBytecode([type |-> "INT", int_ |-> g],
                                               NewWordsActive,
                                               Emitted(outputIn, 0)))] :
               g \in GarbageInts}
    ELSE LET e == makeBytecode(list, outputIn)
         IN  {[st |-> IF e.threw THEN "throw" ELSE "ok", e |-> e, ub |-> FALSE]}

(***************************************************************************)
(* compile and compile_ (compiler.cpp): the files are opened, then          *)
(* tokenize, constructAST and makeBytecode run in a try block.              *)
(***************************************************************************)
\* nothing printed
NoReport == [eType |-> "NONE", line |-> -1, column |-> -1]

\* the catch clause's message without the position
ReportKindOnly(e) == [eType |-> e.eType, line |-> -1, column |-> -1]

\* the catch clause's message: e.line, e.column, e.what()
Report(e) == [eType |-> e.eType, line |-> e.line, column |-> e.column]

\* makeBytecode is called whatever constructAST did
MayEmitAlways(r) == r.st \in {"ok", "throw"}

\* compile_ reaches the call of makeBytecode: constructAST returned
MayEmit(r) == r.st = "ok"

\* inputFile.open, outputFile.open: compile returns 1 if one of them fails
OpenFiles ==
    /\ pc = "open"
    /\ \/ /\ pc' = "tokenize"
          /\ UNCHANGED <<status>>
       \/ /\ pc' = "returned"
          /\ status' = 1
    /\ UNCHANGED <<tokenList, nodeList, outputList, result, regVars, lexVars,
                   output, byteCounter, rid1, reported, rc>>

\* makeBytecode(ast, outputFile, stream)
MakeBytecode ==
    /\ pc = "done"
    /\ MayEmit(result)
    /\ \E o \in EmitOutcomes(outputList, output) :
          /\ output' = o.e.output
          /\ byteCounter' = o.e.byteCounter
          /\ wordsActive' = o.e.reg
          /\ lastCall' = o.e.call
          /\ rid1' = IF o.st = "ok" THEN o.e.ridOut ELSE rid1
          /\ CASE o.st = "ok" ->
                    /\ pc' = "emitted"
                    /\ result' = [result EXCEPT !.ub = @ \/ o.ub]
               [] o.st = "throw" ->
                    /\ pc' = "failed"
                    /\ result' = Ended("throw", "OUT_OF_REGISTERS", -1, -1,
                                       result.ub)
               [] o.st = "crash" ->
                    /\ pc' = "failed"
                    /\ result' = Ended("crash", "NONE", -1, -1, TRUE)
    /\ UNCHANGED <<tokenList, nodeList, outputList, bytesActive, lexVars,
                   status, reported, rc>>

\* return 0 at the end of compile_, passed on by compile
\* the locals of compile_ go out of scope: ~NodeList of ast, then
\* ~TokenList of tokenList
Destructed(h) ==
    DeleteAll(h, Strings(outputList, <<>>) \o TokenStrings(tokenList))

CompileReturn ==
    /\ pc = "emitted"
    /\ status' = 0
    /\ pc' = "returned"
    /\ heap' = Destructed(heap)
    /\ UNCHANGED <<tokenList, nodeList, outputList, result, regVars, src, lex,
                   output, byteCounter, rid1, reported, rc>>

\* catch (CompilerException& e) and return 1
CompileCatch ==
    /\ pc \in {"done", "failed"}
    /\ result.st = "throw"
    /\ reported' = Report(result)
    /\ status' = 1
    /\ pc' = "returned"
    /\ heap' = Destructed(heap)
    /\ UNCHANGED <<tokenList, nodeList, outputList, result, regVars, src, lex,
                   output, byteCounter, rid1, rc>>

(***************************************************************************)
(* The inputs of constructAST and condenseAST.                             *)
(***************************************************************************)
LeafTokens == {"NUM_INT", "NUM_FLOAT", "TRUE"}

OpTokens == {"STAR", "SLASH", "PLUS", "DASH"}

BracketTokens == {"LEFT_PAREN", "RIGHT_PAREN", "LEFT_SQUARE", "RIGHT_SQUARE",
                  "LEFT_CURLY", "RIGHT_CURLY"}

\* the tokens of one source line, one character each: line 0, columns 0, 1, ...
TokensOf(types) ==
    [i \in 1..Len(types) |->
        [Token(types[i], 0, i - 1, types[i] = "IDENTIFIER")
            EXCEPT !.ptr = IF types[i] = "IDENTIFIER" THEN i ELSE 0]]

\* the token of a promoted leaf and the token it was promoted from
Drained(type, i) == Token(type, 0, i - 1, FALSE)

Undrained(type, i) ==
    [Drained(type, i) EXCEPT !.ptr = IF type = "IDENTIFIER" THEN i ELSE 0]

\* the buffers of a token list made by tokenize: one for each identifier
HeapOf(tokens) ==
    [i \in 1..Len(tokens) |->
        IF tokens[i].type = "IDENTIFIER" THEN "live" ELSE "none"]

\* the chains leaf (op leaf)^k
ChainInputs(k) ==
    { [i \in 1..(2 * k + 1) |->
          IF i % 2 = 1 THEN l[(i + 1) \div 2] ELSE o[i \div 2]] :
      l \in [1..(k + 1) -> LeafTokens], o \in [1..k -> OpTokens] }

\* the sequences of n brackets and integer literals
GroupInputs(n) == [1..n -> BracketTokens \cup {"NUM_INT"}]

\* an integer literal, a bracketed span of k integer literals and m more
\* integer literals after it
SpanInputs(k, m) ==
    { <<"NUM_INT", b[1]>> \o [i \in 1..k |-> "NUM_INT"] \o <<b[2]>>
          \o [i \in 1..m |-> "NUM_INT"] :
      b \in {<<"LEFT_PAREN", "RIGHT_PAREN">>, <<"LEFT_SQUARE", "RIGHT_SQUARE">>,
             <<"LEFT_CURLY", "RIGHT_CURLY">>} }

\* the sequences of n integer literals, operators and parentheses, operators
\* in any place
MaxExprLen == 4

ExprInputs(n) ==
    [1..n -> OpTokens \cup {"NUM_INT", "LEFT_PAREN", "RIGHT_PAREN"}]

\* the chains leaf (op leaf)^k of integer literals and identifiers
NameInputs(k) ==
    { [i \in 1..(2 * k + 1) |->
          IF i % 2 = 1 THEN l[(i + 1) \div 2] ELSE o[i \div 2]] :
      l \in [1..(k + 1) -> {"NUM_INT", "IDENTIFIER"}], o \in [1..k -> OpTokens] }

\* an integer literal, an operator and an identifier in parentheses
ParenNameInputs ==
    { <<"NUM_INT", op, "LEFT_PAREN", "IDENTIFIER", "RIGHT_PAREN">> :
      op \in OpTokens }

\* the token an operand of evaluation type t is promoted from
LeafTokenOf(t) ==
    CASE t = "INT" -> "NUM_INT"
      [] t = "FLOAT" -> "NUM_FLOAT"
      [] t = "BOOL" -> "TRUE"
      [] t = "CHAR" -> "CHAR"
      [] t = "UNKNOWN" -> "IDENTIFIER"

\* the leaf built from a token, character literals included (ExprChar's
\* constructor; constructAST does not promote them yet)
LeafOf(token) ==
    IF token.type = "CHAR" THEN ExprChar(NodeToken(token))
    ELSE PromoteLeaf(NodeToken(token))

\* a op b for every pair of evaluation types: the operands of one binop
BinopInputs ==
    { <<LeafTokenOf(a), op, LeafTokenOf(b)>> : a \in ExprTypes, b \in ExprTypes,
                                                op \in OpTokens }

\* constructAST is entered with the tokens of a chain of up to MaxOps
\* operators, of a bracket sequence of up to MaxGroupLen tokens, of up to
\* MaxExprLen literals, operators and parentheses, of one binop, or of a chain
\* of up to two operators over literals and identifiers; a binop with a
\* character operand is taken up at the call of condenseAST, its leaves
\* built as promotion would build them
Init ==
    /\ \/ /\ \E k \in 1..MaxOps : \E t \in ChainInputs(k) :
                tokenList = TokensOf(t)
          /\ nodeList = <<>>
          /\ pc = "construct"
       \/ /\ \E n \in 0..MaxGroupLen : \E t \in GroupInputs(n) :
                tokenList = TokensOf(t)
          /\ nodeList = <<>>
          /\ pc = "construct"
       \/ /\ \E k \in 0..2 : \E m \in 0..1 : \E t \in SpanInputs(k, m) :
                tokenList = TokensOf(t)
          /\ nodeList = <<>>
          /\ pc = "construct"
       \/ /\ \E n \in 1..MaxExprLen : \E t \in ExprInputs(n) :
                tokenList = TokensOf(t)
          /\ nodeList = <<>>
          /\ pc = "construct"
       \/ /\ \E t \in {b \in BinopInputs : "CHAR" \notin {b[1], b[3]}} :
                tokenList = TokensOf(t)
          /\ nodeList = <<>>
          /\ pc = "construct"
       \/ /\ \E k \in 1..2 : \E t \in NameInputs(k) \cup ParenNameInputs :
                tokenList = TokensOf(t)
          /\ nodeList = <<>>
          /\ pc = "construct"
       \/ /\ \E t \in {b \in BinopInputs : "CHAR" \in {b[1], b[3]}} :
                /\ tokenList = [i \in 1..3 |-> Drained(t[i], i)]
                /\ nodeList = [i \in 1..3 |-> LeafOf(Undrained(t[i], i))]
          /\ pc = "condense"
    /\ outputList = <<>>
    /\ result = NoError
    /\ wordsActive = NewWordsActive
    /\ bytesActive = NewBytesActive
    /\ lastCall = NoCall
    /\ src = <<>>
    /\ lex = NoLex
    /\ output = <<>>
    /\ byteCounter = 0
    /\ rid1 = 0
    /\ status = -1
    /\ reported = NoReport
    /\ rc = -1
    /\ heap = HeapOf(tokenList)

Next == ConstructAST \/ CondenseAST

Spec == Init /\ [][Next]_vars

\* a RegManager on its own: any sequence of its four calls
InitReg ==
    /\ tokenList = <<>>
    /\ nodeList = <<>>
    /\ outputList = <<>>
    /\ result = NoError
    /\ pc = "done"
    /\ wordsActive = NewWordsActive
    /\ bytesActive = NewBytesActive
    /\ lastCall = NoCall
    /\ src = <<>>
    /\ lex = NoLex
    /\ output = <<>>
    /\ byteCounter = 0
    /\ rid1 = 0
    /\ status = -1
    /\ reported = NoReport
    /\ rc = -1
    /\ heap = <<>>

NextReg == GetWord \/ FreeWord \/ GetByte \/ FreeByte

SpecReg == InitReg /\ [][NextReg]_vars

\* characters of the numerals parseNumber is called with
NumChars == {"0", "1", "9", "b", "B", "d", "F", "x", "X", "."}

\* characters of a numeral text
MaxNumLen == 4

\* hexadecimal digits that fill int_t and one more
HexLen == (INT_BITS + 3) \div 4 + 1

\* the texts of up to MaxNumLen characters
NumTexts(n) == [1..n -> NumChars]

\* 0x and up to HexLen digits: numerals up to and beyond the range of int_t
HexTexts(n) == { <<"0", "x">> \o t : t \in [1..n -> {"0", "8", "F"}] }

\* parseNumber on its own: called with an unidentified numeral of any text,
\* or with a token of another type
InitNum ==
    /\ \/ \E n \in 0..MaxNumLen : \E t \in NumTexts(n) :
             /\ src = t
             /\ tokenList = EmplaceBack(<<>>, Token4("NUM_UNIDENTIFIED", 0, Len(t), t))
       \/ \E n \in 1..HexLen : \E t \in HexTexts(n) :
             /\ src = t
             /\ tokenList = EmplaceBack(<<>>, Token4("NUM_UNIDENTIFIED", 0, Len(t), t))
       \/ \E t \in NumTexts(1) :
             /\ src = t
             /\ tokenList = EmplaceBack(<<>>, Token4("IDENTIFIER", 0, Len(t), t))
    /\ pc = "parse"
    /\ nodeList = <<>>
    /\ outputList = <<>>
    /\ result = NoError
    /\ wordsActive = NewWordsActive
    /\ bytesActive = NewBytesActive
    /\ lastCall = NoCall
    /\ lex = NoLex
    /\ output = <<>>
    /\ byteCounter = 0
    /\ rid1 = 0
    /\ status = -1
    /\ reported = NoReport
    /\ rc = -1
    /\ heap = <<"live">>

NextNum == ParseNumber

SpecNum == InitNum /\ [][NextNum]_vars

\* characters of a source text
MaxSrcLen == 5

\* string literals with quotes, backslashes and the letter of an escape
StringChars == {DQ, BS, "a", "n"}

\* the other escapes
EscapeChars == {DQ, BS, "t", "c", "0"}

\* comments between identifiers
CommentChars == {"/", "*", "a", LF, " "}

\* numerals, identifiers and operators
TokenChars == {"1", "a", "+", "=", ".", " "}

\* the texts of n characters over an alphabet
SrcTexts(alphabet, n) == [1..n -> alphabet]

\* the source texts the specification works through: "a\tb" and 42
TabExample == <<DQ, "a", BS, "t", "b", DQ>>

LiteralExample == <<"4", "2">>

\* a numeral whose last character is a letter
HexExample == <<"0", "x", "F">>

SpecSources == {TabExample, LiteralExample, HexExample}

\* tokenize on its own, on a source text of one of the four alphabets
InitTok ==
    /\ \/ \E n \in 0..MaxSrcLen : \E t \in SrcTexts(StringChars, n) : src = t
       \/ \E n \in 0..(MaxSrcLen - 1) : \E t \in SrcTexts(EscapeChars, n) : src = t
       \/ \E n \in 0..MaxSrcLen : \E t \in SrcTexts(CommentChars, n) : src = t
       \/ \E n \in 0..(MaxSrcLen - 1) : \E t \in SrcTexts(TokenChars, n) : src = t
       \/ \E t \in SpecSources : src = t
    /\ tokenList = <<>>
    /\ pc = "tokenize"
    /\ nodeList = <<>>
    /\ outputList = <<>>
    /\ result = NoError
    /\ wordsActive = NewWordsActive
    /\ bytesActive = NewBytesActive
    /\ lastCall = NoCall
    /\ lex = NoLex
    /\ output = <<>>
    /\ byteCounter = 0
    /\ rid1 = 0
    /\ status = -1
    /\ reported = NoReport
    /\ rc = -1
    /\ heap = <<>>

NextTok ==
    \/ StringChar
    \/ BlockCommentChar
    \/ LineCommentChar
    \/ NumberChar
    \/ TokenChar
    \/ TokenizeReturn

SpecTok == InitTok /\ [][NextTok]_vars

\* numerals, identifiers, operators and brackets
CompileChars == {"1", "a", "+", "(", ")", " "}

\* a string literal and an identifier
QuoteChars == {DQ, "a"}

\* comments before an integer literal
SlashChars == {"/", "*", LF, "1"}

\* compile on a source text of up to MaxSrcLen - 1 characters, or on 42
InitCompile ==
    /\ \/ \E n \in 0..(MaxSrcLen - 1) : \E t \in SrcTexts(CompileChars, n) : src = t
       \/ \E n \in 0..(MaxSrcLen - 1) : \E t \in SrcTexts(QuoteChars, n) : src = t
       \/ \E n \in 0..(MaxSrcLen - 1) : \E t \in SrcTexts(SlashChars, n) : src = t
       \/ src = LiteralExample
    /\ tokenList = <<>>
    /\ pc = "open"
    /\ nodeList = <<>>
    /\ outputList = <<>>
    /\ result = NoError
    /\ wordsActive = NewWordsActive
    /\ bytesActive = NewBytesActive
    /\ lastCall = NoCall
    /\ lex = NoLex
    /\ output = <<>>
    /\ byteCounter = 0
    /\ rid1 = 0
    /\ status = -1
    /\ reported = NoReport
    /\ rc = -1
    /\ heap = <<>>

NextCompile ==
    \/ OpenFiles
    \/ StringChar
    \/ BlockCommentChar
    \/ LineCommentChar
    \/ NumberChar
    \/ TokenChar
    \/ TokenizeReturn
    \/ ConstructAST
    \/ CondenseAST
    \/ MakeBytecode
    \/ CompileReturn
    \/ CompileCatch

SpecCompile == InitCompile /\ [][NextCompile]_vars

(***************************************************************************)
(* The register manager's contract.                                        *)
(***************************************************************************)
\* the lowest index free in a pool, or -1 when every slot is occupied
LowestFree(active) ==
    IF \A i \in DOMAIN active : active[i] THEN -1
    ELSE CHOOSE i \in DOMAIN active :
            ~active[i] /\ \A j \in DOMAIN active : j < i => active[j]

\* what an acquire that returned must have done: base is the pool's first id,
\* before and now the pool before and after the call
AcquiredLowest(base, before, now) ==
    LET i == lastCall.reg - base IN
    /\ ~lastCall.threw
    /\ i \in DOMAIN before
    /\ i = LowestFree(before)
    /\ ~before[i]
    /\ now = [before EXCEPT ![i] = TRUE]
    /\ (lastCall.freed - base) \in DOMAIN before =>
          (lastCall.reg = lastCall.freed <=> lastCall.freed - base = LowestFree(before))

\* C9: an acquire that returns hands out the lowest-indexed slot free at the
\* call and marks it occupied (and nothing else changes): the slot was free,
\* so no slot is handed out twice without a release between, and the slot
\* released by the call just before is returned if and only if it is the
\* lowest free index.
C9_AcquireLowestFree ==
    /\ (lastCall.op = "getWord" /\ ~lastCall.threw) =>
          /\ AcquiredLowest(W0, lastCall.words, wordsActive)
          /\ bytesActive = lastCall.bytes
    /\ (lastCall.op = "getByte" /\ ~lastCall.threw) =>
          /\ AcquiredLowest(B0, lastCall.bytes, bytesActive)
          /\ wordsActive = lastCall.words

\* a getWord that returns the slot just released, which is not slot 0
C9_Witness ==
    /\ lastCall.op = "getWord"
    /\ ~lastCall.threw
    /\ lastCall.freed = lastCall.reg
    /\ lastCall.reg = W0 + 1
    /\ lastCall.words[0]

\* C10: getWord (getByte) throws OUT_OF_REGISTERS exactly when every slot of
\* its pool is occupied at the call, and then leaves both pools as they were;
\* with a free slot it returns a register of its pool.
C10_OutOfRegistersIffFull ==
    /\ lastCall.op = "getWord" =>
          /\ lastCall.threw <=> (\A i \in DOMAIN lastCall.words : lastCall.words[i])
          /\ lastCall.threw =>
                wordsActive = lastCall.words /\ bytesActive = lastCall.bytes
          /\ ~lastCall.threw => lastCall.reg \in WordRegs
    /\ lastCall.op = "getByte" =>
          /\ lastCall.threw <=> (\A i \in DOMAIN lastCall.bytes : lastCall.bytes[i])
          /\ lastCall.threw =>
                wordsActive = lastCall.words /\ bytesActive = lastCall.bytes
          /\ ~lastCall.threw => lastCall.reg \in ByteRegs

\* a getByte that threw while a word register was still free
C10_Witness ==
    /\ lastCall.op = "getByte"
    /\ lastCall.threw
    /\ \E i \in DOMAIN wordsActive : ~wordsActive[i]

(***************************************************************************)
(* Reading a resulting tree.                                               *)
(***************************************************************************)
TypesOf(tokens) == [i \in 1..Len(tokens) |-> tokens[i].type]

\* a bracket-free chain of literal leaves separated by + - * /
IsChain(tokens) ==
    /\ Len(tokens) >= 3
    /\ Len(tokens) % 2 = 1
    /\ \A i \in 1..Len(tokens) :
          IF i % 2 = 1 THEN tokens[i].type \in LeafTokens
          ELSE tokens[i].type \in OpTokens

\* every node of a tree, the tree's root included
RECURSIVE SubNodes(_)
SubNodes(n) ==
    {n} \cup
    CASE n.type = "BINOP" -> SubNodes(n.left) \cup SubNodes(n.right)
      [] n.type = "CAST" -> SubNodes(n.source)
      [] n.type \in {"PAREN_GROUP", "SQUARE_GROUP", "CURLY_GROUP"} ->
            UNION {SubNodes(n.nodeList[i]) : i \in 1..Len(n.nodeList)}
      [] OTHER -> {}

\* the columns of a tree's leaves and operators, left to right
RECURSIVE InOrder(_)
InOrder(n) ==
    CASE n.type = "BINOP" -> InOrder(n.left) \o <<n.column>> \o InOrder(n.right)
      [] n.type = "CAST" -> InOrder(n.source)
      [] OTHER -> <<n.column>>

\* an operand without the implicit cast around it
StripCast(n) == IF n.type = "CAST" THEN n.source ELSE n

OpTypeOf(tokenType) ==
    CASE tokenType = "STAR" -> "MULT"
      [] tokenType = "SLASH" -> "DIV"
      [] tokenType = "PLUS" -> "ADD"
      [] tokenType = "DASH" -> "SUB"

Multiplicative(n) == n.type = "BINOP" /\ n.opType \in {"MULT", "DIV"}

Additive(n) == n.type = "BINOP" /\ n.opType \in {"ADD", "SUB"}

\* the call returned one tree that reads, left to right, as the tokens do:
\* every leaf and operator once, in source order, each binop built from the
\* operator token at its column
ParsesTheTokens ==
    /\ result.st = "ok"
    /\ ~result.ub
    /\ Len(outputList) = 1
    /\ InOrder(outputList[1]) = [i \in 1..Len(tokenList) |-> i - 1]
    /\ \A n \in SubNodes(outputList[1]) :
          n.type = "BINOP" => n.opType = OpTypeOf(tokenList[n.column + 1].type)

(***************************************************************************)
(* Precedence and associativity.                                           *)
(***************************************************************************)
\* C1: for a bracket-free chain of literal leaves separated by + - * /,
\* condenseAST returns one tree over the tokens in which no * or / node has a
\* + or - node as an operand: every multiplicative fold is made first and
\* becomes an operand of the additive node around it.  The tokens of 2+3*4
\* give Add(2, Mult(3, 4)).
C1_Precedence ==
    (pc = "done" /\ IsChain(tokenList)) =>
        /\ ParsesTheTokens
        /\ \A n \in SubNodes(outputList[1]) :
              Multiplicative(n) =>
                  /\ ~Additive(StripCast(n.left))
                  /\ ~Additive(StripCast(n.right))
        /\ TypesOf(tokenList) = <<"NUM_INT", "PLUS", "NUM_INT", "STAR", "NUM_INT">> =>
              LET root == outputList[1] IN
              /\ root.opType = "ADD"
              /\ root.left.type = "INT" /\ root.left.column = 0
              /\ root.right.type = "BINOP" /\ root.right.opType = "MULT"
              /\ root.right.left.column = 2 /\ root.right.right.column = 4

\* 2+3*4 has been condensed to an Add node over a Mult node
C1_Witness ==
    /\ pc = "done"
    /\ TypesOf(tokenList) = <<"NUM_INT", "PLUS", "NUM_INT", "STAR", "NUM_INT">>
    /\ result.st = "ok"
    /\ outputList[1].opType = "ADD"
    /\ outputList[1].right.opType = "MULT"

\* C2: in a bracket-free chain the operators of one precedence level fold to
\* the left: no binop has a binop of its own level as its right operand, so
\* the node built for e1 op1 e2 is the left operand of op2.  The tokens of
\* 8-3-2 give Sub(Sub(8, 3), 2).
C2_LeftAssociative ==
    (pc = "done" /\ IsChain(tokenList)) =>
        /\ ParsesTheTokens
        /\ \A n \in SubNodes(outputList[1]) :
              n.type = "BINOP" =>
                  /\ Additive(n) => ~Additive(StripCast(n.right))
                  /\ Multiplicative(n) => ~Multiplicative(StripCast(n.right))
        /\ TypesOf(tokenList) = <<"NUM_INT", "DASH", "NUM_INT", "DASH", "NUM_INT">> =>
              LET root == outputList[1] IN
              /\ root.opType = "SUB" /\ root.column = 3
              /\ root.left.type = "BINOP" /\ root.left.opType = "SUB"
              /\ root.left.left.column = 0 /\ root.left.right.column = 2
              /\ root.right.type = "INT" /\ root.right.column = 4

\* 8-3-2 has been condensed to a Sub node whose left operand is a Sub node
C2_Witness ==
    /\ pc = "done"
    /\ TypesOf(tokenList) = <<"NUM_INT", "DASH", "NUM_INT", "DASH", "NUM_INT">>
    /\ result.st = "ok"
    /\ outputList[1].left.type = "BINOP"
    /\ outputList[1].right.type = "INT"

(***************************************************************************)
(* Bracket grouping.                                                       *)
(***************************************************************************)
OpenerKind(tokenType) ==
    CASE tokenType = "LEFT_PAREN" -> "PAREN"
      [] tokenType = "LEFT_SQUARE" -> "SQUARE"
      [] tokenType = "LEFT_CURLY" -> "CURLY"
      [] OTHER -> "NONE"

CloserKind(tokenType) ==
    CASE tokenType = "RIGHT_PAREN" -> "PAREN"
      [] tokenType = "RIGHT_SQUARE" -> "SQUARE"
      [] tokenType = "RIGHT_CURLY" -> "CURLY"
      [] OTHER -> "NONE"

InvalidClosing(kind) ==
    CASE kind = "PAREN" -> "INVALID_CLOSING_PAREN"
      [] kind = "SQUARE" -> "INVALID_CLOSING_SQUARE"
      [] kind = "CURLY" -> "INVALID_CLOSING_CURLY"
      [] OTHER -> "NONE"

MissingClosing(kind) ==
    CASE kind = "PAREN" -> "MISSING_CLOSING_PAREN"
      [] kind = "SQUARE" -> "MISSING_CLOSING_SQUARE"
      [] kind = "CURLY" -> "MISSING_CLOSING_CURLY"
      [] OTHER -> "NONE"

InvalidClosingKinds ==
    {"INVALID_CLOSING_PAREN", "INVALID_CLOSING_SQUARE", "INVALID_CLOSING_CURLY"}

BinopKinds == {"BINOP_MISSING_EXPRESSION", "BINOP_ILLEGAL_PATTERN"}

MissingClosingKinds ==
    {"MISSING_CLOSING_PAREN", "MISSING_CLOSING_SQUARE", "MISSING_CLOSING_CURLY"}

\* What is wrong first with the brackets of a token sequence, read left to
\* right with the stack of the brackets still open (innermost last):
\* "invalid", a closer at pos that does not close the innermost open bracket
\* (open is "NONE" when no bracket is open); "missing", the end reached with
\* the bracket open still open; or "none".
RECURSIVE FirstOffence(_, _, _)
FirstOffence(types, i, stack) ==
    LET top == IF stack = <<>> THEN "NONE" ELSE stack[Len(stack)] IN
    IF i > Len(types)
    THEN [what |-> IF stack = <<>> THEN "none" ELSE "missing",
          open |-> top, closer |-> "NONE", pos |-> i]
    ELSE IF OpenerKind(types[i]) # "NONE"
    THEN FirstOffence(types, i + 1, Append(stack, OpenerKind(types[i])))
    ELSE IF CloserKind(types[i]) # "NONE"
    THEN IF top = CloserKind(types[i])
         THEN FirstOffence(types, i + 1, SubSeq(stack, 1, Len(stack) - 1))
         ELSE [what |-> "invalid", open |-> top,
               closer |-> CloserKind(types[i]), pos |-> i]
    ELSE FirstOffence(types, i + 1, stack)

Offence == FirstOffence(TypesOf(tokenList), 1, <<>>)

\* a token wrapper of a bracket, anywhere in the returned list
BracketWrappers ==
    {n \in UNION {SubNodes(outputList[i]) : i \in 1..Len(outputList)} :
        n.type = "TOKEN" /\ n.token \in BracketTokens}

C4_NamesExpectedKind ==
    (/\ pc = "done"
     /\ result.st = "throw"
     /\ result.eType \in InvalidClosingKinds
     /\ Offence.what = "invalid"
     /\ Offence.open # "NONE") =>
        result.eType = InvalidClosing(Offence.open)

\* C4, amended: InvalidClosing<Kind> is thrown only at a closing bracket
\* that does not close the innermost open bracket (or with no bracket open),
\* at that closer's position, and Kind is the kind of that closer; and when
\* the first thing wrong with the brackets is such a closer, that exception
\* is how the call ends, unless a precedence pass threw or an erased
\* iterator was used before the loop got there.
C4_NamesCloserMet ==
    pc = "done" =>
        /\ (result.st = "throw" /\ result.eType \in InvalidClosingKinds) =>
              /\ Offence.what = "invalid"
              /\ Offence.open # Offence.closer
              /\ result.eType = InvalidClosing(Offence.closer)
              /\ result.line = tokenList[Offence.pos].line
              /\ result.column = tokenList[Offence.pos].column
        /\ (/\ Offence.what = "invalid"
            /\ ~result.ub
            /\ ~(result.st = "throw" /\ result.eType \in BinopKinds)) =>
              /\ result.st = "throw"
              /\ result.eType = InvalidClosing(Offence.closer)

\* a square closer met while a parenthesis was open: InvalidClosingSquare
C4_Witness ==
    /\ pc = "done"
    /\ Offence.what = "invalid"
    /\ Offence.open = "PAREN"
    /\ Offence.closer = "SQUARE"
    /\ result.st = "throw"
    /\ result.eType = "INVALID_CLOSING_SQUARE"

\* C5: every InvalidClosing / MissingClosing exception carries the line and
\* column of a token of the input, never the placeholder (-1, -1).
C5_PositionOfAToken ==
    (/\ pc = "done"
     /\ result.st = "throw"
     /\ result.eType \in InvalidClosingKinds \cup MissingClosingKinds) =>
        \E i \in 1..Len(tokenList) :
            /\ tokenList[i].line = result.line
            /\ tokenList[i].column = result.column

(***************************************************************************)
(* The binop resolver.                                                     *)
(***************************************************************************)
\* the evaluation type of the leaf a token is promoted to
EvalTypeOf(tokenType) ==
    CASE tokenType = "NUM_INT" -> "INT"
      [] tokenType = "NUM_FLOAT" -> "FLOAT"
      [] tokenType \in {"TRUE", "FALSE"} -> "BOOL"
      [] tokenType = "CHAR" -> "CHAR"
      [] tokenType = "IDENTIFIER" -> "UNKNOWN"

\* the tokens are  leaf op leaf
IsBinopInput ==
    /\ Len(tokenList) = 3
    /\ tokenList[2].type \in OpTokens
    /\ \A i \in {1, 3} :
          tokenList[i].type \in {"NUM_INT", "NUM_FLOAT", "TRUE", "FALSE", "CHAR", "IDENTIFIER"}

LeftType == EvalTypeOf(tokenList[1].type)

RightType == EvalTypeOf(tokenList[3].type)

\* what condenseAST does with the two operands in the other order
Swapped ==
    LET t == TypesOf(tokenList) IN
    condenseAST([i \in 1..3 |-> LeafOf(Token(t[4 - i], 0, i - 1, FALSE))], 1, "NONE")

\* C6: resolution is symmetric: a op b and b op a both throw
\* BinopIllegalPattern or both give the same result type, and the operand
\* that is wrapped in an implicit cast is the same operand in both orders.
C6_Symmetric ==
    (pc = "done" /\ IsBinopInput) =>
        /\ result.st \in {"ok", "throw"}
        /\ result.st = Swapped.st
        /\ result.st = "throw" =>
              /\ result.eType = "BINOP_ILLEGAL_PATTERN"
              /\ Swapped.eType = "BINOP_ILLEGAL_PATTERN"
        /\ result.st = "ok" =>
              LET n == outputList[1]
                  m == Swapped.outputList[1]
              IN  /\ n.type = "BINOP" /\ m.type = "BINOP"
                  /\ n.evalType = m.evalType
                  /\ n.opType = m.opType
                  /\ (n.left.type = "CAST") <=> (m.right.type = "CAST")
                  /\ (n.right.type = "CAST") <=> (m.left.type = "CAST")
                  /\ StripCast(n.left).evalType = StripCast(m.right).evalType
                  /\ StripCast(n.right).evalType = StripCast(m.left).evalType
                  /\ n.left.evalType = m.right.evalType
                  /\ n.right.evalType = m.left.evalType

\* int * float resolved: the int operand, on the left, is the one cast
C6_Witness ==
    /\ pc = "done"
    /\ TypesOf(tokenList) = <<"NUM_INT", "STAR", "NUM_FLOAT">>
    /\ result.st = "ok"
    /\ outputList[1].left.type = "CAST"
    /\ outputList[1].left.source.type = "INT"
    /\ outputList[1].right.type = "FLOAT"

\* the result types the spec lists, as <<a, b, result>>
ListedPatterns ==
    { <<"INT", "INT", "INT">>, <<"FLOAT", "FLOAT", "FLOAT">>,
      <<"CHAR", "CHAR", "CHAR">>,
      <<"FLOAT", "INT", "FLOAT">>, <<"FLOAT", "CHAR", "FLOAT">>,
      <<"FLOAT", "BOOL", "FLOAT">>, <<"INT", "CHAR", "INT">>,
      <<"INT", "BOOL", "INT">>, <<"CHAR", "BOOL", "CHAR">> }

\* the listed entries that the operand types match, in either order
ListedMatches ==
    {e \in ListedPatterns :
        \/ (LeftType = e[1] /\ RightType = e[2])
        \/ (LeftType = e[2] /\ RightType = e[1])}

\* C7: for an operand pair of the nine listed entries, in either order and
\* for each of + - * /, the binop node has the listed result type.
C7_ResultTypeTable ==
    (pc = "done" /\ IsBinopInput) =>
        \A e \in ListedMatches :
            /\ result.st = "ok"
            /\ Len(outputList) = 1
            /\ outputList[1].type = "BINOP"
            /\ outputList[1].opType = OpTypeOf(tokenList[2].type)
            /\ outputList[1].evalType = e[3]

\* bool - char resolved, by the additive pass, to char
C7_Witness ==
    /\ pc = "done"
    /\ TypesOf(tokenList) = <<"TRUE", "DASH", "CHAR">>
    /\ result.st = "ok"
    /\ outputList[1].evalType = "CHAR"
    /\ outputList[1].opType = "SUB"

\* C8 as the spec states it: BinopIllegalPattern is thrown exactly when the
\* operand pair matches none of the nine listed entries, in either order.
C8_ThrowsOutsideTheNine ==
    (pc = "done" /\ IsBinopInput) =>
        ((result.st = "throw" /\ result.eType = "BINOP_ILLEGAL_PATTERN")
            <=> ListedMatches = {})

\* C8, amended: BinopIllegalPattern is thrown, at the operator's position
\* and with no binary node built, exactly when an operand has type unknown:
\* the table has a tenth entry, (bool, bool) -> int, so every pair of known
\* types resolves, and bool op bool is an int node over two casts.
C8_ThrowsIffUnknown ==
    (pc = "done" /\ IsBinopInput) =>
        IF LeftType = "UNKNOWN" \/ RightType = "UNKNOWN"
        THEN /\ result.st = "throw"
             /\ result.eType = "BINOP_ILLEGAL_PATTERN"
             /\ result.line = tokenList[2].line
             /\ result.column = tokenList[2].column
             /\ outputList = <<>>
        ELSE /\ result.st = "ok"
             /\ outputList[1].type = "BINOP"
             /\ (LeftType = "BOOL" /\ RightType = "BOOL") =>
                   /\ outputList[1].evalType = "INT"
                   /\ outputList[1].left.type = "CAST"
                   /\ outputList[1].right.type = "CAST"

\* an identifier operand made the multiplicative pass throw
C8_Witness ==
    /\ pc = "done"
    /\ TypesOf(tokenList) = <<"NUM_INT", "SLASH", "IDENTIFIER">>
    /\ result.st = "throw"
    /\ result.eType = "BINOP_ILLEGAL_PATTERN"

(***************************************************************************)
(* parseNumber: the numeral as the language reads it.                      *)
(***************************************************************************)
\* the value of a digit character: 0..9, then letters of either case 10..35
CharValue(c) ==
    IF IsDigit(c) THEN OffsetIn(DecimalDigits, c)
    ELSE IF IsIn(UpperCase, c) THEN OffsetIn(UpperCase, c) + 10
    ELSE OffsetIn(LowerCase, c) + 10

AlnumOnly(text) == \A i \in 1..Len(text) : IsDigit(text[i]) \/ IsLetter(text[i])

\* the characters of a recognised prefix: 0x, 0b, 0d
PrefixLen(text) ==
    IF Len(text) >= 2 /\ text[1] = "0" /\ text[2] \in {"x", "b", "d"}
    THEN 2 ELSE 0

\* the base the prefix declares
BaseOf(text) ==
    IF PrefixLen(text) = 2 /\ text[2] = "x" THEN 16
    ELSE IF PrefixLen(text) = 2 /\ text[2] = "b" THEN 2
    ELSE 10

\* the digits: the text without its prefix
DigitsOf(text) == SubSeq(text, PrefixLen(text) + 1, Len(text))

\* a leading 0 followed by a character that is no digit, no prefix letter
\* and no point
LeadingZeroBad(text) ==
    /\ Len(text) >= 2
    /\ text[1] = "0"
    /\ ~IsDigit(text[2])
    /\ text[2] \notin {"x", "b", "d", "."}

AllBelow(digits, base) == \A i \in 1..Len(digits) : CharValue(digits[i]) < base

\* the digits evaluated left to right in the base
RECURSIVE EvalDigits(_, _)
EvalDigits(digits, base) ==
    IF digits = <<>> THEN 0
    ELSE EvalDigits(SubSeq(digits, 1, Len(digits) - 1), base) * base
           + CharValue(digits[Len(digits)])

\* the text has exactly one point and digits of the base around it
OnePointValid(text) ==
    /\ Cardinality({i \in 1..Len(text) : text[i] = "."}) = 1
    /\ ~LeadingZeroBad(text)
    /\ LET ds == SelectSeq(DigitsOf(text), LAMBDA ch : ch # ".") IN
          AlnumOnly(ds) /\ AllBelow(ds, BaseOf(text))

\* parseNumber has been called with a numeral of at least one character
NumeralParsed ==
    /\ pc = "done"
    /\ Len(tokenList) = 1
    /\ tokenList[1].type # "IDENTIFIER"
    /\ src # <<>>

\* C13: on a numeral of digits and letters only, parseNumber succeeds exactly
\* when every digit value is below the base, and the token then is a
\* literal-int whose value is the digits evaluated left to right in that
\* base; a numeral with exactly one point and valid digits becomes a
\* literal-float.
C13_ValueOfTheDigits ==
    (NumeralParsed /\ result.st = "ok") =>
        /\ AlnumOnly(src) =>
              /\ rc = 0 <=> AllBelow(DigitsOf(src), BaseOf(src))
              /\ rc = 0 => /\ tokenList[1].type = "NUM_INT"
                           /\ tokenList[1].int_
                                = EvalDigits(DigitsOf(src), BaseOf(src))
        /\ OnePointValid(src) =>
              /\ rc = 0
              /\ tokenList[1].type = "NUM_FLOAT"

\* C14: base selection: 0x reads the digits after it in base 16, 0b in base
\* 2, 0d and no prefix in base 10 (the value is the one the bits of int_t
\* hold); a lone 0 is the integer 0 and 0 followed by a point a float with
\* whole part 0; a leading 0 followed by any other character that is no
\* digit makes parseNumber return 1.
C14_BaseSelection ==
    (NumeralParsed /\ result.st = "ok") =>
        /\ LeadingZeroBad(src) => rc = 1
        /\ (~LeadingZeroBad(src) /\ AlnumOnly(src)) =>
              /\ rc = 0 <=> AllBelow(DigitsOf(src), BaseOf(src))
              /\ rc = 0 => tokenList[1].int_
                             = Wrap(EvalDigits(DigitsOf(src), BaseOf(src)))
        /\ src = <<"0">> =>
              /\ rc = 0
              /\ tokenList[1].type = "NUM_INT"
              /\ tokenList[1].int_ = 0
        /\ (Len(src) >= 2 /\ src[1] = "0" /\ src[2] = "." /\ rc = 0) =>
              /\ tokenList[1].type = "NUM_FLOAT"
              /\ tokenList[1].float_.whole = 0

\* 0x1F read in base 16: the literal-int 31
C14_Witness ==
    /\ NumeralParsed
    /\ src = <<"0", "x", "1", "F">>
    /\ rc = 0
    /\ tokenList[1].type = "NUM_INT"
    /\ tokenList[1].int_ = 31

\* the character the specification gives for an escaped one
EscapedAs(c) ==
    IF c = "n" THEN LF
    ELSE IF c = "c" THEN ESC
    ELSE IF c = "0" THEN NUL
    ELSE IF c = "t" THEN TAB
    ELSE c

\* a pass of the loop that reads a character inside a string literal and
\* does not throw
InStringPass ==
    /\ pc = "tokenize" /\ ~lex.end
    /\ Adv.isStr /\ ~Adv.end
    /\ pc' = "tokenize"

\* C12: inside a string literal a backslash starts an escape for exactly the
\* one following character, which is appended as newline for n, ESC for c,
\* NUL for 0, TAB for t and as itself otherwise; an escaped quote or
\* backslash is appended and neither ends the string nor starts an escape.
\* The source "a\tb" yields one String token with the payload a, TAB, b.
C12_StringEscapes ==
    /\ []((src = TabExample /\ pc = "construct") =>
             /\ Len(tokenList) = 1
             /\ tokenList[1].type = "STRING"
             /\ tokenList[1].str = <<"a", TAB, "b">>
             /\ Len(tokenList[1].str) = 3)
    /\ [][InStringPass =>
             /\ (~Adv.isEscaped /\ Adv.c = BS) =>
                   /\ lex'.isStr /\ lex'.isEscaped
                   /\ lex'.strlen = lex.strlen
                   /\ tokenList' = tokenList
             /\ Adv.isEscaped =>
                   /\ lex'.isStr /\ ~lex'.isEscaped
                   /\ lex'.strlen = lex.strlen + 1
                   /\ lex'.str[lex'.strlen] = EscapedAs(Adv.c)
                   /\ SubSeq(lex'.str, 1, lex.strlen)
                        = SubSeq(lex.str, 1, lex.strlen)
                   /\ tokenList' = tokenList]_vars

\* "a\tb" has been tokenized: one String token holding a, TAB, b
C12_Witness ==
    /\ src = TabExample
    /\ pc = "construct"
    /\ Len(tokenList) = 1
    /\ tokenList[1].type = "STRING"
    /\ tokenList[1].str = <<"a", TAB, "b">>

\* tokenize threw StringTooLong
StringTooLong == result.st = "throw" /\ result.eType = "STRING_TOO_LONG"

\* the String tokens made so far
StringTokens == {i \in 1..Len(tokenList) : tokenList[i].type = "STRING"}

\* C17 as stated: a string literal whose accumulated length reaches
\* MAX_STR_SIZE makes tokenize raise StringTooLong, and one whose length
\* stays below MAX_STR_SIZE never raises it.
C17_RaisesAtLimit ==
    /\ (lex.isStr /\ lex.strlen >= MAX_STR_SIZE) => StringTooLong
    /\ \A i \in StringTokens : Len(tokenList[i].str) < MAX_STR_SIZE
    /\ (lex.isStr /\ StringTooLong) => lex.strlen >= MAX_STR_SIZE

\* C17, amended: a string literal accumulates up to MAX_STR_SIZE characters
\* without an error, and tokenize raises StringTooLong when one more
\* character is to be added to a literal that holds MAX_STR_SIZE: no
\* literal ever holds more, and a literal is never refused below the limit.
C17_RaisesAboveLimit ==
    /\ lex.isStr => lex.strlen <= MAX_STR_SIZE
    /\ \A i \in StringTokens : Len(tokenList[i].str) <= MAX_STR_SIZE
    /\ (lex.isStr /\ StringTooLong) => lex.strlen = MAX_STR_SIZE

\* a literal of MAX_STR_SIZE characters was followed by one more, which was
\* read from the source, and tokenize threw
C17_Witness ==
    /\ StringTooLong
    /\ lex.isStr /\ ~lex.end
    /\ lex.strlen = MAX_STR_SIZE

\* a closed literal of exactly MAX_STR_SIZE characters became a token
C17_AcceptedAtLimit ==
    /\ pc = "construct"
    /\ \E i \in StringTokens : Len(tokenList[i].str) = MAX_STR_SIZE

\* a pass of the loop that reads a character outside a string literal
PlainPass == pc = "tokenize" /\ ~lex.end /\ ~Adv.end /\ ~Adv.isStr

\* C18: a line comment is consumed silently: the pass that reads the second
\* slash and every pass up to the newline that ends the comment append no
\* token to the token list.
C18_LineCommentSilent ==
    [][(PlainPass /\ (Adv.isComment \/ lex'.isComment)) =>
           tokenList' = tokenList]_vars

\* C19: a block comment is consumed silently: no pass inside it appends a
\* token, and the pass that reads the closing slash leaves the lexer as
\* after whitespace, with an empty working buffer and no pending token.
C19_BlockCommentSilent ==
    [][(PlainPass /\ Adv.isBlockComment) =>
           /\ tokenList' = tokenList
           /\ ~lex'.isBlockComment =>
                 /\ lex'.strlen = 0
                 /\ lex'.token1Index = "NONE"]_vars

\* the token types of the input
InputTypes == [i \in 1..Len(tokenList) |-> tokenList[i].type]

\* the input is integer literals around one bracketed span of integer
\* literals, opened at p and closed at q, with a literal before it
IsSpanAt(p, q) ==
    /\ 1 < p /\ p < q /\ q <= Len(tokenList)
    /\ <<InputTypes[p], InputTypes[q]>>
         \in {<<"LEFT_PAREN", "RIGHT_PAREN">>, <<"LEFT_SQUARE", "RIGHT_SQUARE">>,
              <<"LEFT_CURLY", "RIGHT_CURLY">>}
    /\ \A i \in 1..Len(tokenList) : i \notin {p, q} => InputTypes[i] = "NUM_INT"

\* the integer literal node of the i-th token
IntNodeAt(i) == ExprInt(NodeToken(tokenList[i]))

IntNodes(from, to) == [i \in 1..(to - from + 1) |-> IntNodeAt(from + i - 1)]

\* what the specification puts in the place of the span from p to q
SpanNode(p, q) ==
    IF InputTypes[p] = "LEFT_PAREN"
    THEN IF q - p = 2 THEN IntNodeAt(p + 1)
         ELSE NodeParenGroup(IntNodes(p + 1, q - 1))
    ELSE IF InputTypes[p] = "LEFT_SQUARE"
    THEN NodeSquareGroup(IntNodes(p + 1, q - 1))
    ELSE NodeCurlyGroup(IntNodes(p + 1, q - 1))

\* C16: a parenthesised span whose contents resolved to exactly one
\* expression is replaced by that expression, any other parenthesised span
\* by one paren group holding the contents; a square or curly span is always
\* replaced by one group of its kind; the nodes before and after the span
\* keep their order.
C16_ParenCollapse ==
    \A p, q \in 1..Len(tokenList) :
        (pc = "done" /\ IsSpanAt(p, q)) =>
            /\ result.st = "ok"
            /\ outputList = IntNodes(1, p - 1) \o <<SpanNode(p, q)>>
                              \o IntNodes(q + 1, Len(tokenList))

\* 1 (1) 1 was resolved to three integer literals, and 1 [1] 1 keeps its group
C16_Witness ==
    /\ pc = "done"
    /\ InputTypes = <<"NUM_INT", "LEFT_PAREN", "NUM_INT", "RIGHT_PAREN", "NUM_INT">>
    /\ Len(outputList) = 3
    /\ \A i \in 1..3 : outputList[i].type = "INT"

\* makeBytecode has returned for an AST whose first node is an integer literal
IntLiteralEmitted ==
    /\ pc = "emitted"
    /\ outputList # <<>>
    /\ outputList[1].type = "INT"

\* C11: when the first node of the AST is an integer literal with value v,
\* makeBytecode writes exactly one record: the move-word-immediate opcode
\* in one byte, the id of the lowest word register of a fresh pool in one
\* byte, the value v in four bytes, and nothing else; the byte counter
\* advances by the 6 bytes of the record.
C11_IntLiteralRecord ==
    IntLiteralEmitted =>
        /\ output = <<[size |-> 1, value |-> "MOV_W"],
                      [size |-> 1, value |-> W0],
                      [size |-> 4, value |-> outputList[1].int_]>>
        /\ byteCounter = 6

\* the literal 42 was compiled: one record for the value 42
C11_Witness ==
    /\ IntLiteralEmitted
    /\ src = LiteralExample
    /\ Len(outputList) = 1
    /\ outputList[1].int_ = 42
    /\ Len(output) = 3
    /\ output[3].value = 42
    /\ byteCounter = 6

\* the errors of tokenize and those of constructAST
TokenizeErrors == {"STRING_TOO_LONG", "INVALID_NUMBER"}

ConstructErrors ==
    {"UNKNOWN", "INVALID_CLOSING_PAREN", "INVALID_CLOSING_SQUARE",
     "INVALID_CLOSING_CURLY", "MISSING_CLOSING_PAREN", "MISSING_CLOSING_SQUARE",
     "MISSING_CLOSING_CURLY", "BINOP_MISSING_EXPRESSION", "BINOP_ILLEGAL_PATTERN"}

\* a phase has raised an error
Raised == result.st = "throw"

\* the three phases ran to their ends and none raised
AllCompleted == lex.end /\ result.st = "ok" /\ pc = "emitted"

\* C15: compile returns 0 exactly when tokenize, constructAST and
\* makeBytecode all completed without raising; an error raised in a phase
\* aborts the compilation: no later phase is started, the error stays as it
\* was raised and is the one reported, with its kind, line and column, and
\* compile returns a status that is not 0.
C15_FailFast ==
    /\ []((Raised /\ result.eType \in TokenizeErrors) =>
             nodeList = <<>> /\ outputList = <<>> /\ output = <<>>)
    /\ []((Raised /\ result.eType \in ConstructErrors) => output = <<>>)
    /\ []((pc = "returned" /\ Raised) =>
             /\ status # 0
             /\ reported = [eType |-> result.eType, line |-> result.line,
                            column |-> result.column])
    /\ []((pc = "returned" /\ ~Raised) => reported = NoReport)
    /\ [][/\ Raised => result' = result
          /\ status' # status => (status' = 0 <=> AllCompleted)]_vars

\* a numeral with a digit that is none of its base was reported and compile
\* returned 1
C15_Witness ==
    /\ pc = "returned"
    /\ status = 1
    /\ Raised
    /\ result.eType = "INVALID_NUMBER"
    /\ reported.eType = "INVALID_NUMBER"
    /\ reported.line = result.line
    /\ nodeList = <<>>

\* C20: whenever tokenize or constructAST has raised an error, nothing has
\* been written to the output; what the output holds was written by
\* makeBytecode, which starts only after tokenize and constructAST have
\* both completed without an error.
C20_NoPartialOutput ==
    /\ (Raised /\ result.eType \in TokenizeErrors \cup ConstructErrors) =>
           output = <<>> /\ byteCounter = 0
    /\ output # <<>> =>
           /\ lex.end
           /\ result.st = "ok"
           /\ pc \in {"emitted", "returned"}

\* constructAST raised an error, compile returned, the output is empty
C20_Witness ==
    /\ pc = "returned"
    /\ Raised
    /\ result.eType \in ConstructErrors
    /\ status = 1
    /\ output = <<>>

\* the two-character token that a and b form when adjacent, or "NONE"
PairOf(a, b) ==
    IF a = "+" /\ b = "=" THEN "PLUS_EQUALS"
    ELSE IF a = "=" /\ b = "=" THEN "EQ_EQUALS"
    ELSE IF a = "+" /\ b = "+" THEN "PLUS_PLUS"
    ELSE "NONE"

\* the one-character token of a
SingleOf(a) == IF a = "+" THEN "PLUS" ELSE "EQUALS"

\* the token types the specification gives for the text from index i on,
\* the text being made of +, =, the letter a and spaces: adjacent pairs
\* merge, any other + or = stands alone, a run of letters is one identifier
RECURSIVE MergedFrom(_, _, _)
MergedFrom(text, i, acc) ==
    IF i > Len(text) THEN acc
    ELSE IF text[i] \in {"+", "="}
    THEN IF i < Len(text) /\ PairOf(text[i], text[i + 1]) # "NONE"
         THEN MergedFrom(text, i + 2, Append(acc, PairOf(text[i], text[i + 1])))
         ELSE MergedFrom(text, i + 1, Append(acc, SingleOf(text[i])))
    ELSE IF text[i] = "a" /\ (i = Len(text) \/ text[i + 1] # "a")
    THEN MergedFrom(text, i + 1, Append(acc, "IDENTIFIER"))
    ELSE MergedFrom(text, i + 1, acc)

\* tokenize has returned for a source of +, =, a and spaces
PunctuationTokenized ==
    /\ pc = "construct"
    /\ \A i \in 1..Len(src) : src[i] \in {"+", "=", "a", " "}

\* C21: a two-character token is emitted only for two characters that are
\* adjacent in the source and form a pair of the token2 table; every other
\* one-character punctuation is emitted exactly once as its own token, also
\* when it is the last character of the input.
C21_TwoCharacterMerging ==
    PunctuationTokenized =>
        [i \in 1..Len(tokenList) |-> tokenList[i].type]
            = MergedFrom(src, 1, <<>>)

\* tokenize has ended for a source that is one word with nothing after it,
\* short enough for the working string: letters only, or a digit followed
\* by letters and digits
WordTokenized ==
    /\ pc \in {"construct", "done"}
    /\ result.st # "crash"
    /\ src # <<>>
    /\ Len(src) <= MAX_STR_SIZE
    /\ \/ \A i \in 1..Len(src) : IsLetter(src[i])
       \/ /\ IsDigit(src[1])
          /\ \A i \in 1..Len(src) : IsDigit(src[i]) \/ IsLetter(src[i])

\* C22: an identifier, keyword or numeral that is still being accumulated
\* when the input ends becomes exactly one token, with exactly the
\* accumulated characters, before tokenize returns; this holds for numerals
\* whose last character is a letter as for those ending in a digit.
C22_EndOfInputFinalizes ==
    WordTokenized =>
        /\ Len(tokenList) = 1
        /\ IsLetter(src[1]) =>
              /\ tokenList[1].type = "IDENTIFIER"
              /\ tokenList[1].str = src
        /\ (IsDigit(src[1]) /\ pc = "construct") =>
              tokenList[1].type \in {"NUM_INT", "NUM_FLOAT"}
        /\ (IsDigit(src[1]) /\ pc = "done") =>
              /\ tokenList[1].type = "NUM_UNIDENTIFIED"
              /\ tokenList[1].str = src

\* tokenize threw InvalidNumber
InvalidNumber == result.st = "throw" /\ result.eType = "INVALID_NUMBER"

\* the numeral tokens that parseNumber did not resolve
Unresolved == {i \in 1..Len(tokenList) : tokenList[i].type = "NUM_UNIDENTIFIED"}

\* C23: number resolution is all or nothing: where parseNumber fails, the
\* token stays an unresolved numeral that owns its unmodified text, and
\* tokenize raises InvalidNumber; where it succeeds, the token is a
\* literal-int or a literal-float and owns no text.  After tokenize has
\* returned, no token is an unresolved numeral.
C23_AllOrNothing ==
    /\ \A i \in Unresolved :
          /\ i = Len(tokenList)
          /\ InvalidNumber
          /\ tokenList[i].hasStr
          /\ tokenList[i].str = CStr(lex.str)
    /\ InvalidNumber => Unresolved = {Len(tokenList)}
    /\ \A i \in 1..Len(tokenList) :
          tokenList[i].type \in {"NUM_INT", "NUM_FLOAT"} =>
              ~tokenList[i].hasStr /\ tokenList[i].str = <<>>
    /\ pc = "construct" => Unresolved = {}

\* a numeral was resolved, then one with a digit that is none of its base
\* was left unresolved and tokenize threw
C23_Witness ==
    /\ InvalidNumber
    /\ Len(tokenList) = 2
    /\ tokenList[1].type = "NUM_INT"
    /\ tokenList[2].type = "NUM_UNIDENTIFIED"
    /\ tokenList[2].hasStr

\* what a token is to the passes of its level
LevelKind(type) ==
    CASE type \in {"STAR", "SLASH"} -> "op1"
      [] type \in {"PLUS", "DASH"} -> "op2"
      [] type \in {"NUM_INT", "NUM_FLOAT", "IDENTIFIER", "TRUE", "FALSE"} -> "expr"
      [] OTHER -> "token"

\* the top level as the passes meet it, for a token list whose only brackets
\* are empty pairs of parentheses: a pair is one group, which does not
\* collapse; at is the index of the token
RECURSIVE LevelOf(_, _, _)
LevelOf(tokens, i, acc) ==
    IF i > Len(tokens) THEN acc
    ELSE LET pair == /\ i < Len(tokens)
                     /\ tokens[i].type = "LEFT_PAREN"
                     /\ tokens[i + 1].type = "RIGHT_PAREN"
         IN  LevelOf(tokens, IF pair THEN i + 2 ELSE i + 1,
                     Append(acc, [kind |-> IF pair THEN "group"
                                           ELSE LevelKind(tokens[i].type),
                                  at |-> i]))

Level == LevelOf(tokenList, 1, <<>>)

\* constructAST has ended on a token list that does not start with a
\* bracket, whose brackets are empty pairs of parentheses and whose leaves
\* are those the first pass promotes
LevelCondensed ==
    /\ pc = "done"
    /\ tokenList # <<>>
    /\ tokenList[1].type \notin BracketTokens
    /\ \A i \in 1..Len(tokenList) : tokenList[i].type # "CHAR"
    /\ LET level == Level IN
          \A j \in 1..Len(level) :
              level[j].kind = "token" =>
                  tokenList[level[j].at].type \notin BracketTokens

\* the operators of a pass that are first or last of the level or have a
\* neighbour that is no expression
Lonely(kind) ==
    LET level == Level IN
    {j \in 1..Len(level) :
        /\ level[j].kind = kind
        /\ \/ j = 1
           \/ j = Len(level)
           \/ level[j - 1].kind \notin {"expr"}
           \/ level[j + 1].kind \notin {"expr"}}

\* the first of a non-empty set of positions of the level
FirstOf(S) == CHOOSE j \in S : \A k \in S : j <= k

\* BinopMissingExpression was raised at the operator at position j of the level
MissingAt(j) ==
    /\ result.st = "throw"
    /\ result.eType = "BINOP_MISSING_EXPRESSION"
    /\ result.line = tokenList[Level[j].at].line
    /\ result.column = tokenList[Level[j].at].column

\* C24: in each precedence pass, the operator of the pass that the scan meets
\* first or last of its level, or beside a node that is no expression (a
\* token, a group that did not collapse), raises BinopMissingExpression at
\* the operator's line and column: the first such * or / of the level, or,
\* without one, the first such + or -.  When every operator has an
\* expression on both sides, BinopMissingExpression is not raised.
C24_MissingExpression ==
    LevelCondensed =>
        IF Lonely("op1") # {} THEN MissingAt(FirstOf(Lonely("op1")))
        ELSE IF Lonely("op2") # {} THEN MissingAt(FirstOf(Lonely("op2")))
        ELSE result.eType # "BINOP_MISSING_EXPRESSION"

\* a + or - between a literal and an empty pair of parentheses raised it
C24_Witness ==
    /\ LevelCondensed
    /\ Lonely("op1") = {}
    /\ \E j \in Lonely("op2") :
          /\ 1 < j /\ j < Len(Level)
          /\ Level[j - 1].kind = "expr"
          /\ Level[j + 1].kind = "group"
          /\ MissingAt(j)

\* the binary nodes of the trees constructAST returned
ReturnedBinops ==
    IF pc = "done" /\ result.st = "ok"
    THEN {n \in UNION {SubNodes(outputList[i]) : i \in 1..Len(outputList)} :
             n.type = "BINOP"}
    ELSE {}

\* operand o of a binary node of type t is of type t, and is an implicit
\* cast to t exactly when the expression under it is of another type
OperandCast(o, t) ==
    /\ o.isExpr
    /\ o.evalType = t
    /\ o.type = "CAST" => o.source.evalType # t

\* C25: in every tree condenseAST returns, a binary node has a result type
\* among int, float, char and bool, never unknown; both operands evaluate to
\* that type; an operand is under an implicit cast exactly when its own type
\* differed from the result type, and the cast's target is the result type.
C25_CastInvariant ==
    \A n \in ReturnedBinops :
        /\ n.evalType \in {"INT", "FLOAT", "CHAR", "BOOL"}
        /\ OperandCast(n.left, n.evalType)
        /\ OperandCast(n.right, n.evalType)

\* a returned binary node whose left operand is a binary node under a cast
\* and whose right operand needed none
C25_Witness ==
    \E n \in ReturnedBinops :
        /\ n.left.type = "CAST"
        /\ n.left.source.type = "BINOP"
        /\ n.right.type # "CAST"

\* a pass of the loop that closes a string literal: it appends a String token
StringClosed ==
    /\ pc = "tokenize"
    /\ lex.isStr
    /\ Len(tokenList') = Len(tokenList) + 1
    /\ tokenList'[Len(tokenList')].type = "STRING"

\* C28: the String token emitted when a string literal closes owns exactly
\* the accumulated text: the same length and the same characters, in order,
\* as were accumulated between the quotes after escape mapping, whichever
\* escapes the literal contains.
C28_StringPayload ==
    [][StringClosed =>
          /\ tokenList'[Len(tokenList')].hasStr
          /\ Len(tokenList'[Len(tokenList')].str) = lex.strlen
          /\ tokenList'[Len(tokenList')].str = SubSeq(lex.str, 1, lex.strlen)]_vars

\* the same for the literals that accumulated no NUL
C28_PayloadWithoutNul ==
    [][(StringClosed /\ \A i \in 1..lex.strlen : lex.str[i] # NUL) =>
          /\ tokenList'[Len(tokenList')].hasStr
          /\ tokenList'[Len(tokenList')].str = SubSeq(lex.str, 1, lex.strlen)]_vars

\* the newline characters among the first n characters of the source
NewlinesBefore(n) == {i \in 1..n : src[i] = LF}

\* the index of the last newline among the first n characters, 0 without one
LastNewline(n) ==
    IF NewlinesBefore(n) = {} THEN 0
    ELSE CHOOSE i \in NewlinesBefore(n) : \A j \in NewlinesBefore(n) : j <= i

\* the loop has read character number lex.pos of the source and worked on it
CharacterRead == lex.pos >= 1 /\ ~lex.end /\ result.st # "crash"

\* C27: for every character read, the line counter is the number of newline
\* characters of the source read before it, and the column counter is the
\* number of characters read since the last of them, 0 for the first
\* character of a line; an escaped newline in a string literal neither
\* advances the line counter nor resets the column counter for what follows.
C27_PositionTracking ==
    CharacterRead =>
        /\ lex.line = Cardinality(NewlinesBefore(lex.pos - 1))
        /\ lex.column = lex.pos - 1 - LastNewline(lex.pos - 1)

\* the source holds a backslash followed by n
HasBackslashN == \E i \in 1..(Len(src) - 1) : src[i] = BS /\ src[i + 1] = "n"

\* the same for the sources without the two characters backslash, n
C27_PositionWithoutEscape == ~HasBackslashN => C27_PositionTracking

\* C29: every list position condenseAST dereferences or hands to insert,
\* erase or splice designates an element still in the list, or the list
\* end, when it is used, wherever a bracketed span is placed, a span that
\* opens a nesting level or the whole input included: no call of
\* constructAST uses an erased position.
C29_IteratorsValid == ~result.ub

\* the same for the inputs whose first token is no opening bracket and that
\* hold no opening bracket right after another
C29_ValidAwayFromLevelStart ==
    (/\ tokenList # <<>>
     /\ tokenList[1].type \notin {"LEFT_PAREN", "LEFT_SQUARE", "LEFT_CURLY"}
     /\ \A i \in 1..(Len(tokenList) - 1) :
           tokenList[i].type \in {"LEFT_PAREN", "LEFT_SQUARE", "LEFT_CURLY"} =>
               tokenList[i + 1].type \notin {"LEFT_PAREN", "LEFT_SQUARE", "LEFT_CURLY"})
        => ~result.ub

\* C30: in every reachable state of tokenize the length of the working
\* string is at most MAX_STR_SIZE, so every write to it, the terminating
\* NUL at index strlen included, stays inside its MAX_STR_SIZE + 1 cells, in
\* string mode, identifier mode and number mode, whatever the input length.
C30_BufferBound ==
    /\ lex.strlen <= MAX_STR_SIZE
    /\ Len(lex.str) <= MAX_STR_SIZE + 1

\* the same outside number mode
C30_BoundOutsideNumbers == ~lex.isNumber => C30_BufferBound

\* the tokens that own buffer h: has-text flag set, pointer to h
TokenOwners(h) ==
    {i \in 1..Len(tokenList) : tokenList[i].hasStr /\ tokenList[i].ptr = h}

\* the string pointers of the identifier nodes of the node lists
NodeStrings == Strings(nodeList \o outputList, <<>>)

\* the identifier nodes that own buffer h
NodeOwners(h) == {k \in 1..Len(NodeStrings) : NodeStrings[k] = h}

\* the number of holders of buffer h
Holders(h) == Cardinality(TokenOwners(h)) + Cardinality(NodeOwners(h))

\* no step so far had undefined behaviour
Defined == ~lex.ub /\ ~result.ub

\* tokenize, parseNumber or the leaf promotion is at work or has just ended
OwnershipStep == pc \in {"tokenize", "construct", "condense", "parse"}

\* every allocated buffer has exactly one holder and no buffer was deleted
\* twice
OwnedOnce ==
    /\ \A h \in 1..Len(heap) : heap[h] # "twice"
    /\ (OwnershipStep /\ Defined) =>
          \A h \in 1..Len(heap) :
              Holders(h) = IF heap[h] = "live" THEN 1 ELSE 0

\* compile has returned and every buffer was released
AllReleased ==
    (pc = "returned" /\ Defined) =>
        \A h \in 1..Len(heap) : heap[h] \in {"none", "freed"}

\* C26: at every step of tokenize, parseNumber and the leaf promotion each
\* allocated text buffer has exactly one holder, a token with its has-text
\* flag set or an identifier node (promotion moves the buffer to the node
\* and leaves the token without one), so that the teardown of the token
\* list and of the tree releases every buffer exactly once, never twice.
C26_SingleOwnership == OwnedOnce /\ AllReleased

\* the same without the release after an error met inside a bracket
C26_OwnedAndReleasedOutsideBrackets ==
    /\ OwnedOnce
    /\ (\A i \in 1..Len(tokenList) : tokenList[i].type \notin BracketTokens)
          => AllReleased

(***************************************************************************)
(* Registers across the emitter.                                           *)
(***************************************************************************)
\* makeBytecode has returned from a call of makeExprBytecode that took a
\* register for the value of an integer literal and returned it in rid1
ValueInRegister ==
    /\ pc = "emitted"
    /\ ~result.ub
    /\ outputList # <<>>
    /\ outputList[1].type = "INT"
    /\ lastCall.op = "getWord"
    /\ ~lastCall.threw
    /\ rid1 = lastCall.reg

\* C31: when makeExprBytecode has returned register r as holding the value
\* of an expression, r is marked occupied in the pool of the calling
\* makeBytecode, so that a later getWord on that pool cannot return r
C31_RegisterLive ==
    ValueInRegister =>
        /\ wordsActive[rid1 - W0]
        /\ getWord(wordsActive).reg # rid1

\* what the code does instead: the register is marked in the callee's copy of
\* the pool only; the caller's pool is all free after the call and its next
\* getWord returns the same register
C31_MarkedInCopyOnly ==
    ValueInRegister =>
        /\ wordsActive = NewWordsActive
        /\ getWord(lastCall.words).active[rid1 - W0]
        /\ getWord(wordsActive).reg = rid1

(***************************************************************************)
(* The empty program.                                                      *)
(***************************************************************************)
\* tokenize has returned for a source without a token: the empty source,
\* white space only
NoTokens ==
    /\ lex.end
    /\ ~lex.ub
    /\ ~(Raised /\ result.eType \in TokenizeErrors)
    /\ tokenList = <<>>
    /\ pc \in {"construct", "condense", "done", "emitted", "failed", "returned"}

\* C32: makeBytecode reads the first node of the AST only when the AST has
\* one: for a source without a token tokenize, constructAST and makeBytecode
\* complete without an access to an element of an empty list, nothing is
\* written and compile returns 0
C32_EmptyProgram ==
    NoTokens =>
        /\ ~result.ub
        /\ result.st \in {"none", "ok"}
        /\ pc # "failed"
        /\ output = <<>>
        /\ byteCounter = 0
        /\ pc = "returned" => status = 0

\* up to the call of makeBytecode the claim holds: tokenize and constructAST
\* complete on a source without a token, the AST is empty, nothing is written
C32_EmptyUntilEmission ==
    (NoTokens /\ pc \in {"construct", "condense", "done"}) =>
        /\ ~result.ub
        /\ result.st \in {"none", "ok"}
        /\ outputList = <<>>
        /\ output = <<>>
        /\ byteCounter = 0

\* makeBytecode on the empty AST: the first node is read where there is
\* none, whatever follows
C32_EmptyListRead ==
    (NoTokens /\ pc \in {"emitted", "failed"}) => result.ub

(***************************************************************************)
(* Identifiers as operands.                                                *)
(***************************************************************************)
\* the nodes of the working list and of the AST
AllNodes ==
    UNION {SubNodes(nodeList[i]) : i \in 1..Len(nodeList)}
    \cup UNION {SubNodes(outputList[i]) : i \in 1..Len(outputList)}

\* the expression an operand stands for: what is under its implicit cast
Operand(o) == IF o.type = "CAST" THEN o.source ELSE o

\* the operators of a pass with an identifier leaf beside them
BesideName(kind) ==
    LET level == Level IN
    {j \in 2..(Len(level) - 1) :
        /\ level[j].kind = kind
        /\ \E n \in {j - 1, j + 1} : tokenList[level[n].at].type = "IDENTIFIER"}

\* BinopIllegalPattern was raised at the token at index i
IllegalAt(i) ==
    /\ result.st = "throw"
    /\ result.eType = "BINOP_ILLEGAL_PATTERN"
    /\ result.line = tokenList[i].line
    /\ result.column = tokenList[i].column

\* constructAST has ended on a level whose operators all have an expression
\* on both sides
AllBetweenExpressions ==
    /\ LevelCondensed
    /\ Lonely("op1") = {}
    /\ Lonely("op2") = {}

\* C33: an identifier leaf has the evaluation type unknown.  On a level whose
\* operators all stand between expressions, a * / + or - with an identifier
\* leaf as an operand makes condenseAST raise BinopIllegalPattern at the
\* position of the operator: the first such * or / of the level, or, without
\* one, the first such + or -; an identifier in parentheses is an identifier
\* leaf.  Without such an operator constructAST returns without an error.
\* No binary node is ever built over an identifier: the operands of every
\* binary node are of type int, float, bool or char.
C33_IdentifierOperand ==
    /\ \A n \in AllNodes :
          /\ n.type = "IDENTIFIER" => n.evalType = "UNKNOWN"
          /\ n.type = "BINOP" =>
                \A o \in {Operand(n.left), Operand(n.right)} :
                    /\ o.type # "IDENTIFIER"
                    /\ o.evalType \in {"INT", "FLOAT", "BOOL", "CHAR"}
    /\ AllBetweenExpressions =>
          IF BesideName("op1") # {}
          THEN IllegalAt(Level[FirstOf(BesideName("op1"))].at)
          ELSE IF BesideName("op2") # {}
          THEN IllegalAt(Level[FirstOf(BesideName("op2"))].at)
          ELSE result.st = "ok"
    /\ (pc = "done" /\ InputTypes \in ParenNameInputs) => IllegalAt(2)

\* 1 * 1 + a: the product was built, then the sum of the product and the
\* identifier raised BinopIllegalPattern at the +
C33_Witness ==
    /\ pc = "done"
    /\ InputTypes = <<"NUM_INT", "STAR", "NUM_INT", "PLUS", "IDENTIFIER">>
    /\ BesideName("op1") = {}
    /\ IllegalAt(4)

====
